---- MODULE Spec2Model ----
(***************************************************************************)
(* A model of the atlas DNS forwarder: the rule engine, the group          *)
(* resolvers, and the response cache manager with lazy refresh and         *)
(* persistence.  Each component has its own specification over the one     *)
(* set of variables; a component that a specification does not exercise    *)
(* stays in its idle state.                                                *)
(***************************************************************************)
EXTENDS Integers, Sequences, FiniteSets, TLC

VARIABLES
    \* ---- rule engine (defaultEngine.Execute) ----
    rules,      \* d.rules: the configured rules, in order
    epc,        \* position of Execute: "match", "perform", "done"
    eidx,       \* index of the rule the loop is at
    elog,       \* calls made so far: <<"match", i>> and <<"perform", i>>
    eres,       \* what Execute returned
    \* ---- group resolvers (groupResolver.Query, outbound Group.Query) ----
    gimpl,      \* which implementation runs: "errgroup" or "channel"
    gres,       \* the configured children: what each one's upstream would answer
    gpar,       \* concurrent / parallel
    gpc,        \* position of the caller: "start", "wait", "done"
    gsel,       \* the children picked for this call, as indices of gres
    gchild,     \* per picked child: "running", "returned", "finished"
    gout,       \* per picked child: what its Query returned
    gctx,       \* the shared context: "live" or "cancelled"
    gerr,       \* errgroup: the slot whose error was recorded first (0: none)
    gresult,    \* errgroup version: the slot last stored in result (0: none)
    gch,        \* channel version: respCh
    gfirst,     \* channel version: firstErr (0: nil)
    gnrecv,     \* channel version: responses received so far
    gret,       \* what Query returned
    gwon,       \* history: slot of the first child whose success was published
    gmsg,       \* per slot: the request object handed to the child's Query
    \* ---- cache manager (cacheManager in resolver/cache.go) ----
    now,        \* the wall clock, in ticks
    lazy,       \* cfg.Lazy
    csize,      \* cfg.Size
    upstream,   \* the answers the downstream resolver qr can give
    lru,        \* c.cache: the entries, least recently used first
    inflight,   \* c.inflight: keys with a refresh registered
    dirty,      \* c.dirty
    q,          \* the callers of Query: position and locals of each
    rtasks,     \* the refresh goroutines spawned so far
    ncalls,     \* downstream queries made so far; numbers the responses
    nqueries,   \* calls of Query started so far
    lastStored, \* per key, the entry most recently added by store (history)
    \* ---- persistence (persistLoop, persist, loadFromFile) ----
    persistOn,  \* cfg.Persist
    fs,         \* the files: the configured path and path + ".temp"
    ppc,        \* position of the persistence goroutine
    psnap,      \* persist: the snapshot being written
    pidx,       \* persist: index of the next record to encode
    pwriteErr,  \* persist: writeErr
    pfailed,    \* the last flush that was started failed (history)
    committed,  \* the snapshot whose rename made the file (history)
    nticks,     \* how often the persistence ticker has fired
    nstarts,    \* how often a new instance has been started from the file
    restored,   \* the records of the file that the running instance started from
    pristine,   \* no store or remove has happened since that start
    \* ---- reconfiguration (ConfigureCache, Close, the persistLoop of each instance) ----
    insts,      \* every cacheManager built so far, oldest first
    cpc,        \* position of the running ConfigureCache call
    copt,       \* opt.Persist of that call
    installed,  \* globalCacheManager: index of the stored instance, 0 for none
    \* ---- expression matcher (matcher/expression.go) ----
    xwords,     \* the expression text, as its whitespace-separated fields
    xreg,       \* the names in the matcher registry given to the build
    xpc,        \* "new", then "built" or "failed", then "matched"
    xroot,      \* expressionMatcher.root
    xerr,       \* the error BuildExpressionMatcher returned ("" for nil)
    xassign,    \* what each registered matcher's Match returns for the request
    xlog,       \* the matchers called by Match, in call order
    xval,       \* what Match returned
    \* ---- start-up: buildMatcherMap, buildRuleEngine (part_001) ----
    mcfg,       \* cfg.Matcher: the configured matchers, name and type of each
    mtypes,     \* the matcher map, as its entries: name and type of the matcher
    rmatch,     \* r.Match of the rule being compiled, as its fields
    bpc,        \* "start", "mapped", then the rule is compiled and matched
    \* ---- cache keys (buildCacheKey in resolver/cache.go, cacheKey in server.go) ----
    kimpl,      \* which of the two functions is called
    kreq,       \* two requests: name, qtype and qclass of the first question of each
    kkey,       \* the key computed for each
    kpc,        \* "new", then "keyed"
    \* ---- cache size (ConfigureCache, newCacheManager, lru.New) ----
    zopt,       \* opt.Size as given to ConfigureCache
    zpc,        \* "new", then "configured" or "panicked"
    zsize,      \* the size the LRU was built with
    zlru,       \* the keys in the LRU, least recently used first
    zlog,       \* the queries made: key, and whether the downstream resolver was asked
    \* ---- inbound server (dnsServer.handleDNS, Server.handleDNS) ----
    simpl,      \* which server runs: "dnsServer" or "Server"
    sup,        \* the process is running
    shist,      \* the requests received so far, each with what its handler did
    \* ---- keyword automaton (ahoMatcher) ----
    apc,        \* "idle" or "live"
    am,         \* the ahoMatcher: its nodes, outputs, fail links, patterns, constructed
    aadded,     \* the patterns given to add so far
    atext,      \* the text of the last match call
    ares,       \* what it returned: "none", "true", "false"
    \* ---- domain matcher (newDomainMatcher, domainMatcher.Match) ----
    dpc,        \* "idle", "new", "built", "failed", "matched"
    drules,     \* the configured rule strings
    dname,      \* req.Question[0].Name
    dm,         \* the domainMatcher: full, suffix, kw, reg
    dres,       \* what Match returned: "none", "true", "false"
    \* ---- host action (hostAction.Perform) ----
    hpc,        \* "idle", "new", "done"
    hrecords,   \* h.records, as a set of [domain, ipv4, ipv6]
    hreq,       \* req.Question
    hresp,      \* what Perform returned
    \* ---- geosite matcher (createGeositeMatcher) ----
    ypc,        \* "idle", "new", "done"
    yentries,   \* the loaded dataset, as a set of [name, domains]
    ycats,      \* cfg.Categories: the raw category specs
    yres,        \* what createGeositeMatcher came to: err and domainRules
    \* ---- geosite wire decoder (parseGeoSiteList, skipField) ----
    wdata,      \* the input buffer: a sequence of bytes 0..255
    wpc,        \* "input", "skipped", "parsed"; "idle" in the other specifications
    wskip,      \* what skipField returned: [err, off], with the offset and wire type tried
    wres,       \* what parseGeoSiteList returned: [err, result]
    \* ---- geosite provider (fileCache.loadAll, fileCache.loadCategories) ----
    lraw,       \* f.raw: the bytes of the file
    lall,       \* f.all: nil, or the dataset of the full load
    lcats,      \* f.categories: the categories decoded so far
    lret,       \* what the last call returned: [op, asked, err, result]
    lcalls,     \* number of loader calls made
    \* ---- entry-flag cache (internal/cache: Cache with the refreshing flag) ----
    fcap,       \* c.capacity
    flazy,      \* c.lazy
    fitems,     \* c.items: the keys of the index map
    forder,     \* c.order: the entries, front first
    fnow,       \* what c.now() returns
    fuse,       \* history: the keys held, by their last Get or Set, latest last
    fout,       \* per key: refreshes started by ShouldRefresh and not yet finished
    fmiss,      \* per key: requests that missed and are asking the outbound
    flast       \* the last call and what it returned

engineVars == <<rules, epc, eidx, elog, eres>>
groupVars == <<gimpl, gres, gpar, gpc, gsel, gchild, gout, gctx, gerr,
               gresult, gch, gfirst, gnrecv, gret, gwon, gmsg>>

cacheVars == <<now, lazy, csize, upstream, lru, inflight, dirty, q, rtasks,
               ncalls, nqueries, lastStored>>
persistVars == <<persistOn, fs, ppc, psnap, pidx, pwriteErr, pfailed,
                 committed, nticks, nstarts, restored, pristine>>

reconfVars == <<insts, cpc, copt, installed>>
exprVars == <<xwords, xreg, xpc, xroot, xerr, xassign, xlog, xval>>
buildVars == <<mcfg, mtypes, rmatch, bpc>>
keyVars == <<kimpl, kreq, kkey, kpc>>
sizeVars == <<zopt, zpc, zsize, zlru, zlog>>
serverVars == <<simpl, sup, shist>>
ahoVars == <<apc, am, aadded, atext, ares>>
domainVars == <<dpc, drules, dname, dm, dres>>
hostVars == <<hpc, hrecords, hreq, hresp>>
geoVars == <<ypc, yentries, ycats, yres>>
decodeVars == <<wdata, wpc, wskip, wres>>
loaderVars == <<lraw, lall, lcats, lret, lcalls>>
flagVars == <<fcap, flazy, fitems, forder, fnow, fuse, fout, fmiss, flast>>

vars == <<engineVars, groupVars, cacheVars, persistVars, reconfVars, exprVars, buildVars, keyVars,
         sizeVars,
         serverVars,
         ahoVars,
         domainVars,
         hostVars,
         geoVars,
         decodeVars,
         loaderVars,
         flagVars>>

-----------------------------------------------------------------------------
(* Bounds *)

MaxRules == 3
MaxChildren == 3
MaxParallel == 3
NumKeys == 2        \* distinct cache keys the callers ask for
MaxSize == 2        \* largest cfg.Size tried
NumCallers == 2     \* concurrent callers of Query
MaxQueries == 3     \* calls of Query per run
MaxCalls == 3       \* downstream queries per run
MaxRefresh == 2     \* refresh goroutines per run
MaxTime == 6        \* the clock stops here
MaxTTL == 1         \* largest TTL (seconds) the downstream answers with
TicksPerMilli == 2  \* clock resolution below a millisecond (scaled down)
MillisPerSecond == 2 \* a second, in milliseconds (scaled down from 1000)
MaxFlushTicks == 3  \* firings of the persistence ticker per run
MaxStarts == 1      \* starts of a new instance from the file per run
MaxInstances == 3   \* cacheManagers built per run
MaxMatchers == 2    \* configured matchers at start-up
MaxRuleTokens == 3  \* longest match expression of the rule compiled at start-up
MaxSizeQueries == 5 \* queries made after a cache size was configured
MaxRequests == 3    \* messages received by the inbound server
MaxPatternLen == 3  \* longest pattern added to the keyword automaton
MaxAdds == 2        \* add calls on one keyword automaton
MaxTextLen == 4     \* longest text matched by the keyword automaton
MaxValueLen == 2    \* longest value of a domain rule, over every character
MaxPlainValueLen == 3 \* longest value of a domain rule made of "a" and "." only
MaxPairValueLen == 1  \* longest value of a rule in a list of two rules
MaxCnDomains == 2   \* entries of the first category of a geosite dataset
MaxUsDomains == 1   \* entries of its second category
MaxCategories == 2  \* category specs of a geosite matcher
MaxHostQuestions == 2 \* questions in a request given to the host action
MaxHostNameLen == 2 \* longest question name given to the host action
MaxQNameLen == 3    \* longest query name given to the domain matcher, over every character
MaxPlainQNameLen == 5 \* longest query name made of "a" and "." only
MaxNameLen == 2     \* longest question name, in characters
MaxTokens == 4      \* longest arbitrary token sequence given to the expression parser
MaxWellFormed == 7  \* longest well-formed expression given to it
MaxRecordTTL == 2   \* largest record TTL when every shape of response is tried
MaxAnswerRecs == 2  \* most answer records of such a response
MaxOtherRecs == 1   \* most authority, and most additional, records of it

-----------------------------------------------------------------------------
(* Helpers *)

SeqsUpTo(S, n) == UNION {[1..k -> S] : k \in 0..n}

NoResult == [kind |-> "none", by |-> 0]

Min(a, b) == IF a <= b THEN a ELSE b

-----------------------------------------------------------------------------
(* The idle state of each component *)

EngineIdle ==
    /\ rules = <<>>
    /\ epc = "idle"
    /\ eidx = 0
    /\ elog = <<>>
    /\ eres = NoResult

GroupIdle ==
    /\ gimpl = "none"
    /\ gres = <<>>
    /\ gpar = 0
    /\ gpc = "idle"
    /\ gsel = <<>>
    /\ gchild = <<>>
    /\ gout = <<>>
    /\ gctx = "live"
    /\ gerr = 0
    /\ gresult = 0
    /\ gch = <<>>
    /\ gfirst = 0
    /\ gnrecv = 0
    /\ gret = NoResult
    /\ gwon = 0
    /\ gmsg = <<>>

NoEntry == [key |-> 0, serial |-> 0, msg |-> <<>>, expire |-> 0]
NoFile == [exists |-> FALSE, recs |-> <<>>]

CallerIdle ==
    [pc |-> "idle", key |-> 0, ent |-> NoEntry, pre |-> NoEntry, tq |-> -1,
     msg |-> <<>>, sx |-> 0, ndown |-> 0, ret |-> "none", nt |-> 0, fresh |-> FALSE]

CacheIdle ==
    /\ now = 0
    /\ lazy = FALSE
    /\ csize = 0
    /\ upstream = {}
    /\ lru = <<>>
    /\ inflight = {}
    /\ dirty = FALSE
    /\ q = <<>>
    /\ rtasks = <<>>
    /\ ncalls = 0
    /\ nqueries = 0
    /\ lastStored = <<>>

PersistIdle ==
    /\ persistOn = FALSE
    /\ fs = [main |-> NoFile, temp |-> NoFile]
    /\ ppc = "off"
    /\ psnap = <<>>
    /\ pidx = 0
    /\ pwriteErr = FALSE
    /\ pfailed = FALSE
    /\ committed = NoFile
    /\ nticks = 0
    /\ nstarts = 0
    /\ restored = <<>>
    /\ pristine = FALSE

ReconfIdle ==
    /\ insts = <<>>
    /\ cpc = "idle"
    /\ copt = FALSE
    /\ installed = 0

\* The matcher names an expression can mention, and the node that stands for
\* "no tree".
Names == {"a", "b"}
NoNode == [kind |-> "none"]

ExprIdle ==
    /\ xwords = <<>>
    /\ xreg = {}
    /\ xpc = "idle"
    /\ xroot = NoNode
    /\ xerr = ""
    /\ xassign = [n \in Names |-> FALSE]
    /\ xlog = <<>>
    /\ xval = FALSE

BuildIdle ==
    /\ mcfg = <<>>
    /\ mtypes = {}
    /\ rmatch = <<>>
    /\ bpc = "idle"

KeyIdle ==
    /\ kimpl = "none"
    /\ kreq = <<>>
    /\ kkey = <<>>
    /\ kpc = "idle"

SizeIdle ==
    /\ zopt = 0
    /\ zpc = "idle"
    /\ zsize = 0
    /\ zlru = <<>>
    /\ zlog = <<>>

ServerIdle ==
    /\ simpl = "none"
    /\ sup = FALSE
    /\ shist = <<>>

NoAho == [nodes |-> {}, out |-> {}, fail |-> {}, patterns |-> 0, constructed |-> FALSE]

AhoIdle ==
    /\ apc = "idle"
    /\ am = NoAho
    /\ aadded = {}
    /\ atext = <<>>
    /\ ares = "none"

NoDomainMatcher == [full |-> {}, suffix |-> {}, kw |-> NoAho, reg |-> <<>>]

DomainIdle ==
    /\ dpc = "idle"
    /\ drules = <<>>
    /\ dname = <<>>
    /\ dm = NoDomainMatcher
    /\ dres = "none"

NoResponse == [err |-> "none", authoritative |-> FALSE, answer |-> <<>>]

HostIdle ==
    /\ hpc = "idle"
    /\ hrecords = {}
    /\ hreq = <<>>
    /\ hresp = NoResponse

NoRules == [err |-> "none", rules |-> <<>>]

GeoIdle ==
    /\ ypc = "idle"
    /\ yentries = {}
    /\ ycats = <<>>
    /\ yres = NoRules

NoSkip == [err |-> "none", off |-> 0, from |-> 0, wire |-> 0]
NoDataset == [err |-> "none", result |-> {}]

DecodeIdle ==
    /\ wdata = <<>>
    /\ wpc = "idle"
    /\ wskip = NoSkip
    /\ wres = NoDataset

NilData == [isNil |-> TRUE, categories |-> {}]
NoReturn == [op |-> "none", asked |-> <<>>, err |-> "", result |-> {}]

LoaderIdle ==
    /\ lraw = <<>>
    /\ lall = NilData
    /\ lcats = {}
    /\ lret = NoReturn
    /\ lcalls = 0

NoCall == [op |-> "none", key |-> 0, ttl |-> 0, found |-> FALSE, expired |-> FALSE,
           shouldRefresh |-> FALSE, evicted |-> {}]

FlagIdle ==
    /\ fcap = 0
    /\ flazy = FALSE
    /\ fitems = {}
    /\ forder = <<>>
    /\ fnow = 0
    /\ fuse = <<>>
    /\ fout = <<>>
    /\ fmiss = <<>>
    /\ flast = NoCall

-----------------------------------------------------------------------------
(* Group resolvers: src/internal/resolver/group.go (errgroup version) and  *)
(* src/internal/outbound/manager.go (channel version)                      *)

\* What a child's upstream answers when it is left alone.
ChildNatures == {"ok", "fail", "nil"}

GroupInit ==
    /\ gimpl \in {"errgroup", "channel"}
    /\ gres \in (SeqsUpTo(ChildNatures, MaxChildren) \ {<<>>})
    /\ gpar \in 1..MaxParallel
    /\ gpc = "start"
    /\ gsel = <<>>
    /\ gchild = <<>>
    /\ gout = <<>>
    /\ gctx = "live"
    /\ gerr = 0
    /\ gresult = 0
    /\ gch = <<>>
    /\ gfirst = 0
    /\ gnrecv = 0
    /\ gret = NoResult
    /\ gwon = 0
    /\ gmsg = <<>>

\* groupResolver.Query: res := p.res[(i+pos)%len(p.res)] for i < p.concurrent.
RotatedPick(n, k, pos) == [i \in 1..k |-> ((i - 1 + pos) % n) + 1]

\* Group.pickResolvers: the first min(parallel, N) of a shuffle of 0..N-1.
ShuffledPicks(n, k) ==
    {s \in [1..Min(k, n) -> 1..n] : \A i, j \in 1..Min(k, n) : i # j => s[i] # s[j]}

\* The request object a child's Query is called with: groupResolver.Query
\* passes req itself (object 0), Group.Query passes g.cloneMessage(req), a
\* fresh copy for each goroutine (object i for slot i).
RequestHandedOver(impl, i) == IF impl = "errgroup" THEN 0 ELSE i

\* The loops that start the children; every child runs from here on.
GroupStart ==
    /\ gpc = "start"
    /\ \/ /\ gimpl = "errgroup"
          /\ \E pos \in 0..(Len(gres) - 1) :
                gsel' = RotatedPick(Len(gres), gpar, pos)
       \/ /\ gimpl = "channel"
          /\ gsel' \in ShuffledPicks(Len(gres), gpar)
    /\ gchild' = [i \in 1..Len(gsel') |-> "running"]
    /\ gout' = [i \in 1..Len(gsel') |-> "none"]
    /\ gmsg' = [i \in 1..Len(gsel') |-> RequestHandedOver(gimpl, i)]
    /\ gpc' = "wait"
    /\ UNCHANGED <<gimpl, gres, gpar, gctx, gerr, gresult, gch, gfirst, gnrecv, gret, gwon>>
    /\ UNCHANGED <<engineVars, cacheVars, persistVars, reconfVars, exprVars, buildVars,
                   keyVars, sizeVars, serverVars, ahoVars, domainVars, hostVars,
                   geoVars, decodeVars, loaderVars, flagVars>>

\* What res.Query(ctx, req) can return for a child of the given nature under
\* the given state of the shared context: a transport that honours the
\* context aborts with an error once it is cancelled, unless its answer had
\* already arrived.  A child of nature "nil" returns neither a response nor
\* an error: (nil, nil).
ChildOutcomesIgnoreCtx(nature, ctx) ==
    CASE nature = "ok" -> {"ok"}
      [] nature = "nil" -> {"nil"}
      [] OTHER -> {"err"}

ChildOutcomes(nature, ctx) ==
    CASE nature = "ok" ->
           (IF ctx = "cancelled" THEN {"ok", "canceled"} ELSE {"ok"})
      [] nature = "nil" -> {"nil"}
      [] OTHER -> {"err"}

\* errgroup.WithContext: the first non-nil error returned by a child is
\* recorded and cancels the group's context.
ErrgroupCtxAfterErrorNoCancel(ctx) == ctx

ErrgroupCtxAfterError(ctx) == "cancelled"

\* The closure passed to eg.Go, up to its return on error or its cancel()
\* when err == nil (the response is not looked at).
EgChildReturn(i) ==
    /\ gimpl = "errgroup"
    /\ gpc = "wait"
    /\ gchild[i] = "running"
    /\ \E out \in ChildOutcomes(gres[gsel[i]], gctx) :
         /\ gout' = [gout EXCEPT ![i] = out]
         /\ IF out \in {"ok", "nil"}
              THEN /\ gctx' = "cancelled"
                   /\ gchild' = [gchild EXCEPT ![i] = "returned"]
                   /\ gerr' = gerr
              ELSE /\ gctx' = (IF gerr = 0 THEN ErrgroupCtxAfterError(gctx) ELSE gctx)
                   /\ gchild' = [gchild EXCEPT ![i] = "finished"]
                   /\ gerr' = (IF gerr = 0 THEN i ELSE gerr)
    /\ UNCHANGED <<gimpl, gres, gpar, gpc, gsel, gresult, gch, gfirst, gnrecv, gret, gwon, gmsg>>
    /\ UNCHANGED <<engineVars, cacheVars, persistVars, reconfVars, exprVars, buildVars,
                   keyVars, sizeVars, serverVars, ahoVars, domainVars, hostVars,
                   geoVars, decodeVars, loaderVars, flagVars>>

\* result.Store(rs), the debug log's len(rs.Answer) and the closure's
\* return nil.  The store overwrites whatever an earlier child stored; with
\* rs == nil the log's argument dereferences a nil pointer and the goroutine
\* panics, which ends the process (nothing recovers it).
EgChildStore(i) ==
    /\ gimpl = "errgroup"
    /\ gpc = "wait"
    /\ gchild[i] = "returned"
    /\ gresult' = i
    /\ gwon' = (IF gwon = 0 THEN i ELSE gwon)
    /\ gchild' = [gchild EXCEPT ![i] = "finished"]
    /\ IF gout[i] = "nil"
         THEN /\ gret' = [kind |-> "panic", by |-> i]
              /\ gpc' = "done"
         ELSE UNCHANGED <<gret, gpc>>
    /\ UNCHANGED <<gimpl, gres, gpar, gsel, gout, gctx, gerr, gch, gfirst, gnrecv, gmsg>>
    /\ UNCHANGED <<engineVars, cacheVars, persistVars, reconfVars, exprVars, buildVars,
                   keyVars, sizeVars, serverVars, ahoVars, domainVars, hostVars,
                   geoVars, decodeVars, loaderVars, flagVars>>

\* eg.Wait() returns when every child has finished; then the stored result,
\* else the group's error, else the synthetic error.
EgWaitReturn ==
    /\ gimpl = "errgroup"
    /\ gpc = "wait"
    /\ \A i \in 1..Len(gsel) : gchild[i] = "finished"
    /\ gret' = IF gresult # 0 THEN [kind |-> "resp", by |-> gresult]
               ELSE IF gerr # 0 THEN [kind |-> "err", by |-> gerr]
               ELSE [kind |-> "synthetic", by |-> 0]
    /\ gctx' = "cancelled"
    /\ gpc' = "done"
    /\ UNCHANGED <<gimpl, gres, gpar, gsel, gchild, gout, gerr, gresult, gch, gfirst, gnrecv, gwon, gmsg>>
    /\ UNCHANGED <<engineVars, cacheVars, persistVars, reconfVars, exprVars, buildVars,
                   keyVars, sizeVars, serverVars, ahoVars, domainVars, hostVars,
                   geoVars, decodeVars, loaderVars, flagVars>>

\* Group.Query's goroutine: resolver.Query and, on success, once.Do(cancel).
ChChildReturn(i) ==
    /\ gimpl = "channel"
    /\ gchild[i] = "running"
    /\ \E out \in ChildOutcomes(gres[gsel[i]], gctx) :
         /\ gout' = [gout EXCEPT ![i] = out]
         /\ gctx' = (IF out = "ok" THEN "cancelled" ELSE gctx)
    /\ gchild' = [gchild EXCEPT ![i] = "returned"]
    /\ UNCHANGED <<gimpl, gres, gpar, gpc, gsel, gerr, gresult, gch, gfirst, gnrecv, gret, gwon, gmsg>>
    /\ UNCHANGED <<engineVars, cacheVars, persistVars, reconfVars, exprVars, buildVars,
                   keyVars, sizeVars, serverVars, ahoVars, domainVars, hostVars,
                   geoVars, decodeVars, loaderVars, flagVars>>

\* respCh := make(chan response, len(choices))
respChCapacity(choices) == choices

\* respCh <- response{msg, err}: the send waits while the channel is full.
ChChildSend(i) ==
    /\ gimpl = "channel"
    /\ gchild[i] = "returned"
    /\ Len(gch) < respChCapacity(Len(gsel))
    /\ gch' = Append(gch, [slot |-> i, out |-> gout[i]])
    /\ gwon' = (IF gwon = 0 /\ gout[i] = "ok" THEN i ELSE gwon)
    /\ gchild' = [gchild EXCEPT ![i] = "finished"]
    /\ UNCHANGED <<gimpl, gres, gpar, gpc, gsel, gout, gctx, gerr, gresult, gfirst, gnrecv, gret, gmsg>>
    /\ UNCHANGED <<engineVars, cacheVars, persistVars, reconfVars, exprVars, buildVars,
                   keyVars, sizeVars, serverVars, ahoVars, domainVars, hostVars,
                   geoVars, decodeVars, loaderVars, flagVars>>

\* One iteration of "for range choices { resp := <-respCh ... }": the first
\* success is returned (the deferred cancel runs), else firstErr takes
\* resp.err while it is nil (a nil resp.err leaves it nil).
ChRecv ==
    /\ gimpl = "channel"
    /\ gpc = "wait"
    /\ gnrecv < Len(gsel)
    /\ gch # <<>>
    /\ LET resp == Head(gch) IN
         IF resp.out = "ok"
           THEN /\ gret' = [kind |-> "resp", by |-> resp.slot]
                /\ gpc' = "done"
                /\ gctx' = "cancelled"
                /\ gfirst' = gfirst
           ELSE /\ gfirst' = (IF gfirst = 0 /\ resp.out # "nil"
                                 THEN resp.slot ELSE gfirst)
                /\ UNCHANGED <<gret, gpc, gctx>>
    /\ gch' = Tail(gch)
    /\ gnrecv' = gnrecv + 1
    /\ UNCHANGED <<gimpl, gres, gpar, gsel, gchild, gout, gerr, gresult, gwon, gmsg>>
    /\ UNCHANGED <<engineVars, cacheVars, persistVars, reconfVars, exprVars, buildVars,
                   keyVars, sizeVars, serverVars, ahoVars, domainVars, hostVars,
                   geoVars, decodeVars, loaderVars, flagVars>>

\* After the loop: every child failed.
ChAllFailed ==
    /\ gimpl = "channel"
    /\ gpc = "wait"
    /\ gnrecv = Len(gsel)
    /\ gret' = IF gfirst # 0 THEN [kind |-> "err", by |-> gfirst]
               ELSE [kind |-> "synthetic", by |-> 0]
    /\ gpc' = "done"
    /\ gctx' = "cancelled"
    /\ UNCHANGED <<gimpl, gres, gpar, gsel, gchild, gout, gerr, gresult, gch, gfirst, gnrecv, gwon, gmsg>>
    /\ UNCHANGED <<engineVars, cacheVars, persistVars, reconfVars, exprVars, buildVars,
                   keyVars, sizeVars, serverVars, ahoVars, domainVars, hostVars,
                   geoVars, decodeVars, loaderVars, flagVars>>

NextGroup ==
    \/ GroupStart
    \/ \E i \in 1..Len(gsel) : EgChildReturn(i)
    \/ \E i \in 1..Len(gsel) : EgChildStore(i)
    \/ EgWaitReturn
    \/ \E i \in 1..Len(gsel) : ChChildReturn(i)
    \/ \E i \in 1..Len(gsel) : ChChildSend(i)
    \/ ChRecv
    \/ ChAllFailed

InitGroup == GroupInit /\ EngineIdle /\ CacheIdle /\ PersistIdle /\ ReconfIdle /\ ExprIdle /\ BuildIdle /\ KeyIdle
    /\ SizeIdle /\ ServerIdle /\ AhoIdle /\ DomainIdle /\ HostIdle /\ GeoIdle
    /\ DecodeIdle /\ LoaderIdle /\ FlagIdle

SpecGroup == InitGroup /\ [][NextGroup]_vars

-----------------------------------------------------------------------------
(* Group resolvers: claims *)

\* Some child picked for this call would answer successfully.
SomePickedChildSucceeds == \E i \in 1..Len(gsel) : gres[gsel[i]] = "ok"

\* C2: if a picked child would return a successful response, the group query
\* returns a response and no error, whatever the order in which the children
\* complete.
C2_SuccessWinsOverFailure ==
    (gpc = "done" /\ SomePickedChildSucceeds) => gret.kind = "resp"

\* C14: the response a group query returns is the response of the first
\* child to succeed (the first whose success reached the query: the first
\* result.Store, the first success sent on respCh); a child that succeeds
\* later never replaces it.
C14_FirstSuccessIsReturned ==
    (gpc = "done" /\ gret.kind = "resp") => gret.by = gwon

\* No picked child has succeeded and none still running would.
NoChildSucceeds ==
    \A i \in 1..Len(gsel) :
       gout[i] # "ok" /\ (gout[i] = "none" => gres[gsel[i]] # "ok")

\* The error the code has recorded as the first one.
FirstErrorObserved == IF gimpl = "errgroup" THEN gerr ELSE gfirst

\* C15: if every selected child fails, the group query returns an error: the
\* first error observed, or a synthetic error exactly when no child produced
\* an error object; it never ends otherwise (nil response with nil error, or
\* no return at all).
C15_AllFailReturnsError ==
    (gpc = "done" /\ NoChildSucceeds) =>
       /\ gret.kind \in {"err", "synthetic"}
       /\ gret.kind = "err" =>
             /\ gret.by = FirstErrorObserved
             /\ gout[gret.by] \in {"err", "canceled"}
       /\ gret.kind = "synthetic" <=>
             \A i \in 1..Len(gsel) : gout[i] = "nil"

\* C16: a group query launches exactly K = min(parallel, N) child queries,
\* on K distinct children, for every parallel >= 1 and every N >= 1.
C16_LaunchesKDistinctChildren ==
    gpc # "start" =>
       /\ Len(gsel) = Min(gpar, Len(gres))
       /\ \A i, j \in 1..Len(gsel) : i # j => gsel[i] # gsel[j]

\* C17: each child task receives its own clone of the request: never the
\* caller's original object (object 0), and no object is in the hands of two
\* child tasks.
C17_EachChildOwnClone ==
    \A i \in 1..Len(gmsg) :
       /\ gmsg[i] # 0
       /\ \A j \in 1..Len(gmsg) : i # j => gmsg[i] # gmsg[j]


-----------------------------------------------------------------------------
(* Rule engine: src/unnamed/part_018, defaultEngine.Execute *)

\* What r.Match and r.Perform of a rule return for the request at hand.
MatchOutcomes == {"true", "false", "err"}
PerformOutcomes == {"ok", "err"}
RuleSet == [match : MatchOutcomes, act : PerformOutcomes]

EngineInit ==
    /\ rules \in SeqsUpTo(RuleSet, MaxRules)
    /\ epc = "match"
    /\ eidx = 1
    /\ elog = <<>>
    /\ eres = NoResult

\* Where the loop goes after r.Match returned: the error check comes first,
\* then "if !ok { continue }", else the action is performed.
AfterMatchSwallowErr(outcome) ==
    CASE outcome = "true" -> "perform"
      [] OTHER -> "continue"

AfterMatch(outcome) ==
    CASE outcome = "err" -> "fail"
      [] outcome = "false" -> "continue"
      [] OTHER -> "perform"

\* Where the loop goes after r.Perform returned: Execute returns in both cases.
AfterPerformSkipError(outcome) ==
    IF outcome = "err" THEN "continue" ELSE "done"

AfterPerformKeepGoing(outcome) ==
    IF outcome = "err" THEN "done" ELSE "continue"

AfterPerform(outcome) == "done"

PerformResult(i, outcome) ==
    IF outcome = "err" THEN [kind |-> "acterr", by |-> i]
                       ELSE [kind |-> "resp", by |-> i]

\* One iteration's r.Match(ctx, req).
ExecMatch ==
    /\ epc = "match"
    /\ eidx <= Len(rules)
    /\ elog' = Append(elog, <<"match", eidx>>)
    /\ LET to == AfterMatch(rules[eidx].match) IN
         CASE to = "fail" ->
                /\ eres' = [kind |-> "matcherr", by |-> eidx]
                /\ epc' = "done"
                /\ eidx' = eidx
           [] to = "continue" ->
                /\ eres' = eres
                /\ epc' = "match"
                /\ eidx' = eidx + 1
           [] OTHER ->
                /\ eres' = eres
                /\ epc' = "perform"
                /\ eidx' = eidx
    /\ UNCHANGED <<rules, groupVars, cacheVars, persistVars, reconfVars, exprVars,
                   buildVars, keyVars, sizeVars, serverVars, ahoVars, domainVars,
                   hostVars, geoVars, decodeVars, loaderVars, flagVars>>

\* r.Perform(ctx, req) of the rule that matched, and the return.
ExecPerform ==
    /\ epc = "perform"
    /\ elog' = Append(elog, <<"perform", eidx>>)
    /\ LET out == rules[eidx].act
           to == AfterPerform(out) IN
         IF to = "done"
           THEN /\ eres' = PerformResult(eidx, out)
                /\ epc' = "done"
                /\ eidx' = eidx
           ELSE /\ eres' = PerformResult(eidx, out)
                /\ epc' = "match"
                /\ eidx' = eidx + 1
    /\ UNCHANGED <<rules, groupVars, cacheVars, persistVars, reconfVars, exprVars,
                   buildVars, keyVars, sizeVars, serverVars, ahoVars, domainVars,
                   hostVars, geoVars, decodeVars, loaderVars, flagVars>>

\* The loop ran off the end of the rules: "no rule match".
ExecNoMatch ==
    /\ epc = "match"
    /\ eidx > Len(rules)
    /\ eres' = [kind |-> "nomatch", by |-> 0]
    /\ epc' = "done"
    /\ UNCHANGED <<rules, eidx, elog, groupVars, cacheVars, persistVars, reconfVars,
                   exprVars, buildVars, keyVars, sizeVars, serverVars, ahoVars,
                   domainVars, hostVars, geoVars, decodeVars, loaderVars, flagVars>>

NextEngine ==
    \/ ExecMatch
    \/ ExecPerform
    \/ ExecNoMatch

InitEngine == EngineInit /\ GroupIdle /\ CacheIdle /\ PersistIdle /\ ReconfIdle /\ ExprIdle /\ BuildIdle /\ KeyIdle
    /\ SizeIdle /\ ServerIdle /\ AhoIdle /\ DomainIdle /\ HostIdle /\ GeoIdle
    /\ DecodeIdle /\ LoaderIdle /\ FlagIdle

SpecEngine == InitEngine /\ [][NextEngine]_vars

-----------------------------------------------------------------------------
(* Rule engine: claims *)

\* Indices of the rules whose expression is true / fails for the request.
TrueRules == {i \in 1..Len(rules) : rules[i].match = "true"}
NonFalseRules == {i \in 1..Len(rules) : rules[i].match # "false"}
Least(S) == CHOOSE i \in S : \A j \in S : i <= j

\* The log of an Execute that evaluated rules 1..j in order and then
\* performed rule j only.
LogUpToPerform(j) ==
    [k \in 1..(j + 1) |-> IF k <= j THEN <<"match", k>> ELSE <<"perform", j>>]

\* C1 (original statement): for every rule list, once Execute has returned,
\* if some rule's expression is true then the expressions of rules 1..j were
\* evaluated in order, where j is the first rule whose expression is true,
\* exactly the action of rule j was performed, its result was returned, and
\* nothing of a later rule was evaluated.
C1_FirstTrueRuleWins ==
    (epc = "done" /\ TrueRules # {}) =>
        LET j == Least(TrueRules) IN
          /\ elog = LogUpToPerform(j)
          /\ eres = PerformResult(j, rules[j].act)

\* C1 (amended): the same, for the first rule whose expression is true when
\* no earlier rule's expression fails to evaluate; when an expression fails
\* first, Execute returns that error and performs no action.
C1_FirstTrueRuleWinsUnlessMatchError ==
    (epc = "done" /\ NonFalseRules # {}) =>
        LET j == Least(NonFalseRules) IN
          IF rules[j].match = "true"
            THEN /\ elog = LogUpToPerform(j)
                 /\ eres = PerformResult(j, rules[j].act)
            ELSE /\ elog = [k \in 1..j |-> <<"match", k>>]
                 /\ eres = [kind |-> "matcherr", by |-> j]

\* The actions performed so far, and the expressions evaluated so far.
Performed == {i \in 1..Len(rules) : \E k \in 1..Len(elog) : elog[k] = <<"perform", i>>}

\* C23: when the action of the first matching rule returns an error, Execute
\* returns that error and nothing of a later rule is evaluated or performed,
\* even if a later rule would match and succeed.
C23_ActionErrorEndsExecute ==
    \A j \in Performed :
       rules[j].act = "err" =>
          /\ epc = "done"
          /\ eres = [kind |-> "acterr", by |-> j]
          /\ elog = LogUpToPerform(j)

C23_Witness ==
    /\ epc = "done"
    /\ Len(rules) = 2
    /\ rules[1] = [match |-> "true", act |-> "err"]
    /\ rules[2] = [match |-> "true", act |-> "ok"]
    /\ eres = [kind |-> "acterr", by |-> 1]

\* C24 (original statement): if no rule's expression is true for the request,
\* Execute returns the no-rule-matched error and no action has been performed.
C24_NoTrueRuleGivesNoMatch ==
    (epc = "done" /\ TrueRules = {}) =>
        /\ eres = [kind |-> "nomatch", by |-> 0]
        /\ Performed = {}

\* C24 (amended): if no rule's expression is true, no action is performed and
\* Execute returns an error: the no-rule-matched error when every expression
\* is false (all of them having been evaluated in order), the evaluation
\* error of the first expression that fails otherwise.
C24_NoTrueRuleGivesNoMatchOrMatchError ==
    (epc = "done" /\ TrueRules = {}) =>
        /\ Performed = {}
        /\ IF NonFalseRules = {}
             THEN /\ eres = [kind |-> "nomatch", by |-> 0]
                  /\ elog = [k \in 1..Len(rules) |-> <<"match", k>>]
             ELSE eres = [kind |-> "matcherr", by |-> Least(NonFalseRules)]

C24_Witness ==
    /\ epc = "done"
    /\ Len(rules) = 2
    /\ rules[1].match = "false"
    /\ rules[2].match = "false"
    /\ eres = [kind |-> "nomatch", by |-> 0]

\* C1 witness: Execute returned the response of the second rule, the first
\* being false, with a third rule that would also match left untouched.
C1_Witness ==
    /\ epc = "done"
    /\ Len(rules) = 3
    /\ rules[1].match = "false"
    /\ rules[2].match = "true"
    /\ rules[3].match = "true"
    /\ eres = [kind |-> "resp", by |-> 2]

-----------------------------------------------------------------------------
(* Cache manager: src/internal/resolver/cache.go, lines 394-814             *)

Keys == 1..NumKeys
TicksPerSecond == TicksPerMilli * MillisPerSecond

\* A response: the TTLs of its answer, authority and additional records, and
\* the number of the downstream query that produced it.
Sections(ttls, n) == SeqsUpTo(ttls, n)
MkMsg(serial, m) == [serial |-> serial, ans |-> m.ans, ns |-> m.ns, extra |-> m.extra]

\* The downstream answers the concurrent runs draw from: one answer record.
AnswerOnly == {[ans |-> <<t>>, ns |-> <<>>, extra |-> <<>>] : t \in 0..MaxTTL}

\* Every shape of response: any TTLs in any of the three sections.
AnyShape ==
    [ans : Sections(0..MaxRecordTTL, MaxAnswerRecs),
     ns : Sections(0..MaxRecordTTL, MaxOtherRecs),
     extra : Sections(0..MaxRecordTTL, MaxOtherRecs)]

SeqMin(sq) == CHOOSE x \in {sq[i] : i \in DOMAIN sq} :
                \A i \in DOMAIN sq : x <= sq[i]

\* cacheManager.extractTTL: the smallest TTL of the first section that has a
\* record at all.
ExtractTTL(msg) ==
    IF msg.ans # <<>> THEN [ttl |-> SeqMin(msg.ans), found |-> TRUE]
    ELSE IF msg.ns # <<>> THEN [ttl |-> SeqMin(msg.ns), found |-> TRUE]
    ELSE IF msg.extra # <<>> THEN [ttl |-> SeqMin(msg.extra), found |-> TRUE]
    ELSE [ttl |-> 0, found |-> FALSE]

\* store: "if !ok || ttl == 0 { return }".
Cacheable(msg) == ExtractTTL(msg).found /\ ExtractTTL(msg).ttl # 0

\* store: expire := time.Now().Add(time.Duration(ttl) * time.Second).
StoreExpire(t, msg) == t + ExtractTTL(msg).ttl * TicksPerSecond

\* get: ttlSeconds = uint32(remaining / time.Second) when remaining > 0.
TtlSecondsRoundUp(remaining) ==
    IF remaining > 0 THEN (remaining + TicksPerSecond - 1) \div TicksPerSecond ELSE 0

TtlSeconds(remaining) ==
    IF remaining > 0 THEN remaining \div TicksPerSecond ELSE 0

\* cacheManager.adjustTTL: every record's TTL is lowered to ttl.
AdjustTTL(msg, ttl) ==
    LET clamp(sq) == [i \in DOMAIN sq |-> Min(sq[i], ttl)] IN
    [msg EXCEPT !.ans = clamp(msg.ans), !.ns = clamp(msg.ns), !.extra = clamp(msg.extra)]

\* get: expired := time.Now().After(expire).
ExpiredNever(t, expire) == FALSE

Expired(t, expire) == t > expire

\* scheduleRefresh: a refresh is registered unless the key is in c.inflight.
ShouldSpawnNever(key, infl) == FALSE

ShouldSpawnAlways(key, infl) == TRUE

ShouldSpawn(key, infl) == key \notin infl

\* The LRU (hashicorp/golang-lru), least recently used first.
LruIndex(l, k) == CHOOSE i \in 1..Len(l) : l[i].key = k
LruHas(l, k) == \E i \in 1..Len(l) : l[i].key = k
LruEntry(l, k) == l[LruIndex(l, k)]
LruRemove(l, k) == SelectSeq(l, LAMBDA e : e.key # k)
LruTouch(l, k) == IF LruHas(l, k) THEN Append(LruRemove(l, k), LruEntry(l, k)) ELSE l
LruAdd(l, e, size) ==
    LET added == Append(LruRemove(l, e.key), e) IN
    IF Len(added) > size THEN Tail(added) ELSE added

LastStoredOf(k) == IF k \in DOMAIN lastStored THEN lastStored[k] ELSE NoEntry

CacheInit ==
    /\ now = 0
    /\ lazy \in BOOLEAN
    /\ csize \in 1..MaxSize
    /\ upstream = AnswerOnly
    /\ lru = <<>>
    /\ inflight = {}
    /\ dirty = FALSE
    /\ q = [c \in 1..NumCallers |-> CallerIdle]
    /\ rtasks = <<>>
    /\ ncalls = 0
    /\ nqueries = 0
    /\ lastStored = [k \in Keys |-> NoEntry]

\* time passes
Tick ==
    /\ now < MaxTime
    /\ now' = now + 1
    /\ UNCHANGED <<lazy, csize, upstream, lru, inflight, dirty, q, rtasks, ncalls,
                   nqueries, lastStored>>
    /\ UNCHANGED <<engineVars, groupVars, persistVars, reconfVars, exprVars, buildVars,
                   keyVars, sizeVars, serverVars, ahoVars, domainVars, hostVars,
                   geoVars, decodeVars, loaderVars, flagVars>>

\* A caller enters cacheManager.Query with a request whose key is k.
QStart(c) ==
    /\ q[c].pc \in {"idle", "done"}
    /\ nqueries < MaxQueries
    /\ \E k \in Keys : q' = [q EXCEPT ![c] = [CallerIdle EXCEPT !.pc = "get", !.key = k]]
    /\ nqueries' = nqueries + 1
    /\ UNCHANGED <<now, lazy, csize, upstream, lru, inflight, dirty, rtasks, ncalls,
                   lastStored>>
    /\ UNCHANGED <<engineVars, groupVars, persistVars, reconfVars, exprVars, buildVars,
                   keyVars, sizeVars, serverVars, ahoVars, domainVars, hostVars,
                   geoVars, decodeVars, loaderVars, flagVars>>

\* get, under the lock: c.cache.Get(key) and the copy of data and expire.
QGetLocked(c) ==
    /\ q[c].pc = "get"
    /\ IF LruHas(lru, q[c].key)
         THEN /\ lru' = LruTouch(lru, q[c].key)
              /\ q' = [q EXCEPT ![c].pc = "adjust",
                                ![c].ent = LruEntry(lru, q[c].key),
                                ![c].pre = LastStoredOf(q[c].key),
                                ![c].nt = Len(rtasks),
                                ![c].fresh = pristine]
         ELSE /\ lru' = lru
              /\ q' = [q EXCEPT ![c].pc = "miss",
                                ![c].pre = LastStoredOf(q[c].key),
                                ![c].fresh = pristine]
    /\ UNCHANGED <<now, lazy, csize, upstream, inflight, dirty, rtasks, ncalls,
                   nqueries, lastStored>>
    /\ UNCHANGED <<engineVars, groupVars, persistVars, reconfVars, exprVars, buildVars,
                   keyVars, sizeVars, serverVars, ahoVars, domainVars, hostVars,
                   geoVars, decodeVars, loaderVars, flagVars>>

\* get, after the lock: unpack, time.Until(expire), adjustTTL, the expiry
\* test; then Query's branch on found / expired / cfg.Lazy.
QGetAdjust(c) ==
    /\ q[c].pc = "adjust"
    /\ LET e == q[c].ent
           m == AdjustTTL(e.msg, TtlSeconds(e.expire - now))
       IN  q' = [q EXCEPT ![c].tq = now,
                          ![c].msg = m,
                          ![c].pc = IF ~Expired(now, e.expire) THEN "done"
                                    ELSE IF lazy THEN "sched" ELSE "remove",
                          ![c].ret = IF ~Expired(now, e.expire) THEN "hit" ELSE "none"]
    /\ UNCHANGED <<now, lazy, csize, upstream, lru, inflight, dirty, rtasks, ncalls,
                   nqueries, lastStored>>
    /\ UNCHANGED <<engineVars, groupVars, persistVars, reconfVars, exprVars, buildVars,
                   keyVars, sizeVars, serverVars, ahoVars, domainVars, hostVars,
                   geoVars, decodeVars, loaderVars, flagVars>>

\* History: a refresh of key k was spawned after the first n refreshes, that
\* is, since the caller that counted n looked the entry up.
SpawnedSince(n, k) == \E j \in (n + 1)..Len(rtasks) : rtasks[j].key = k

\* scheduleRefresh, then "return msg, nil" with the stale response.
QSchedule(c) ==
    /\ q[c].pc = "sched"
    /\ IF ShouldSpawn(q[c].key, inflight)
         THEN /\ Len(rtasks) < MaxRefresh
              /\ inflight' = inflight \cup {q[c].key}
              /\ rtasks' = Append(rtasks, [key |-> q[c].key, pc |-> "query",
                                           seen |-> q[c].ent.serial,
                                           dup |-> SpawnedSince(q[c].nt, q[c].key),
                                           ok |-> FALSE, held |-> FALSE,
                                           msg |-> <<>>, sx |-> 0])
         ELSE UNCHANGED <<inflight, rtasks>>
    /\ q' = [q EXCEPT ![c].pc = "done", ![c].ret = "stale"]
    /\ UNCHANGED <<now, lazy, csize, upstream, lru, dirty, ncalls, nqueries, lastStored>>
    /\ UNCHANGED <<engineVars, groupVars, persistVars, reconfVars, exprVars, buildVars,
                   keyVars, sizeVars, serverVars, ahoVars, domainVars, hostVars,
                   geoVars, decodeVars, loaderVars, flagVars>>

\* remove(key), for an expired entry when lazy is off.
QRemove(c) ==
    /\ q[c].pc = "remove"
    /\ lru' = LruRemove(lru, q[c].key)
    /\ dirty' = TRUE
    /\ pristine' = FALSE
    /\ q' = [q EXCEPT ![c].pc = "miss"]
    /\ UNCHANGED <<now, lazy, csize, upstream, inflight, rtasks, ncalls, nqueries,
                   lastStored>>
    /\ UNCHANGED <<engineVars, groupVars, reconfVars, exprVars, buildVars, keyVars,
                   sizeVars, serverVars, ahoVars, domainVars, hostVars, geoVars,
                   decodeVars, loaderVars, flagVars>>
    /\ UNCHANGED <<persistOn, fs, ppc, psnap, pidx, pwriteErr, pfailed, committed,
                   nticks, nstarts, restored>>

\* qr.Query(ctx, req) and the part of store before the lock.
QDownstream(c) ==
    /\ q[c].pc = "miss"
    /\ ncalls < MaxCalls
    /\ ncalls' = ncalls + 1
    /\ \/ q' = [q EXCEPT ![c].pc = "done", ![c].ret = "err", ![c].ndown = 1]
       \/ \E m \in upstream :
            LET resp == MkMsg(ncalls + 1, m) IN
            IF Cacheable(resp)
              THEN q' = [q EXCEPT ![c].pc = "store", ![c].msg = resp, ![c].ndown = 1,
                                  ![c].sx = StoreExpire(now, resp)]
              ELSE q' = [q EXCEPT ![c].pc = "done", ![c].msg = resp, ![c].ndown = 1,
                                  ![c].ret = "down"]
    /\ UNCHANGED <<now, lazy, csize, upstream, lru, inflight, dirty, rtasks, nqueries,
                   lastStored>>
    /\ UNCHANGED <<engineVars, groupVars, persistVars, reconfVars, exprVars, buildVars,
                   keyVars, sizeVars, serverVars, ahoVars, domainVars, hostVars,
                   geoVars, decodeVars, loaderVars, flagVars>>

\* store, under the lock: c.cache.Add and c.dirty = true; Query returns resp.
QStore(c) ==
    /\ q[c].pc = "store"
    /\ LET e == [key |-> q[c].key, serial |-> q[c].msg.serial,
                 msg |-> q[c].msg, expire |-> q[c].sx] IN
         /\ lru' = LruAdd(lru, e, csize)
         /\ lastStored' = [lastStored EXCEPT ![q[c].key] = e]
    /\ dirty' = TRUE
    /\ pristine' = FALSE
    /\ q' = [q EXCEPT ![c].pc = "done", ![c].ret = "down"]
    /\ UNCHANGED <<now, lazy, csize, upstream, inflight, rtasks, ncalls, nqueries>>
    /\ UNCHANGED <<engineVars, groupVars, reconfVars, exprVars, buildVars, keyVars,
                   sizeVars, serverVars, ahoVars, domainVars, hostVars, geoVars,
                   decodeVars, loaderVars, flagVars>>
    /\ UNCHANGED <<persistOn, fs, ppc, psnap, pidx, pwriteErr, pfailed, committed,
                   nticks, nstarts, restored>>

\* The refresh goroutine: qr.Query under the 5 s timeout and, on success, the
\* part of store before the lock.
RQuery(i) ==
    /\ rtasks[i].pc = "query"
    /\ ncalls < MaxCalls
    /\ ncalls' = ncalls + 1
    /\ \/ rtasks' = [rtasks EXCEPT ![i].pc = "release"]
       \/ \E m \in upstream :
            LET resp == MkMsg(ncalls + 1, m) IN
            IF Cacheable(resp)
              THEN rtasks' = [rtasks EXCEPT ![i].pc = "store", ![i].ok = TRUE,
                                            ![i].msg = resp,
                                            ![i].sx = StoreExpire(now, resp)]
              ELSE rtasks' = [rtasks EXCEPT ![i].pc = "release", ![i].ok = TRUE,
                                            ![i].msg = resp]
    /\ UNCHANGED <<now, lazy, csize, upstream, lru, inflight, dirty, q, nqueries,
                   lastStored>>
    /\ UNCHANGED <<engineVars, groupVars, persistVars, reconfVars, exprVars, buildVars,
                   keyVars, sizeVars, serverVars, ahoVars, domainVars, hostVars,
                   geoVars, decodeVars, loaderVars, flagVars>>

\* The refresh goroutine: store, under the lock.
RStore(i) ==
    /\ rtasks[i].pc = "store"
    /\ LET e == [key |-> rtasks[i].key, serial |-> rtasks[i].msg.serial,
                 msg |-> rtasks[i].msg, expire |-> rtasks[i].sx] IN
         /\ lru' = LruAdd(lru, e, csize)
         /\ lastStored' = [lastStored EXCEPT ![rtasks[i].key] = e]
    /\ dirty' = TRUE
    /\ pristine' = FALSE
    /\ rtasks' = [rtasks EXCEPT ![i].pc = "release",
                                 ![i].held = LruHas(lru', rtasks[i].key)]
    /\ UNCHANGED <<now, lazy, csize, upstream, inflight, q, ncalls, nqueries>>
    /\ UNCHANGED <<engineVars, groupVars, reconfVars, exprVars, buildVars, keyVars,
                   sizeVars, serverVars, ahoVars, domainVars, hostVars, geoVars,
                   decodeVars, loaderVars, flagVars>>
    /\ UNCHANGED <<persistOn, fs, ppc, psnap, pidx, pwriteErr, pfailed, committed,
                   nticks, nstarts, restored>>

\* The deferred delete(c.inflight, key) runs however the goroutine ends.
ReleasedOnSuccessOnly(infl, key, ok) == IF ok THEN infl \ {key} ELSE infl

Released(infl, key, ok) == infl \ {key}

\* The refresh goroutine's deferred delete(c.inflight, key).
RRelease(i) ==
    /\ rtasks[i].pc = "release"
    /\ inflight' = Released(inflight, rtasks[i].key, rtasks[i].ok)
    /\ rtasks' = [rtasks EXCEPT ![i].pc = "exit"]
    /\ UNCHANGED <<now, lazy, csize, upstream, lru, dirty, q, ncalls, nqueries,
                   lastStored>>
    /\ UNCHANGED <<engineVars, groupVars, persistVars, reconfVars, exprVars, buildVars,
                   keyVars, sizeVars, serverVars, ahoVars, domainVars, hostVars,
                   geoVars, decodeVars, loaderVars, flagVars>>

Next ==
    \/ Tick
    \/ \E c \in DOMAIN q : QStart(c)
    \/ \E c \in DOMAIN q : QGetLocked(c)
    \/ \E c \in DOMAIN q : QGetAdjust(c)
    \/ \E c \in DOMAIN q : QSchedule(c)
    \/ \E c \in DOMAIN q : QRemove(c)
    \/ \E c \in DOMAIN q : QDownstream(c)
    \/ \E c \in DOMAIN q : QStore(c)
    \/ \E i \in DOMAIN rtasks : RQuery(i)
    \/ \E i \in DOMAIN rtasks : RStore(i)
    \/ \E i \in DOMAIN rtasks : RRelease(i)

Init == CacheInit /\ PersistIdle /\ EngineIdle /\ GroupIdle /\ ReconfIdle /\ ExprIdle /\ BuildIdle /\ KeyIdle
    /\ SizeIdle /\ ServerIdle /\ AhoIdle /\ DomainIdle /\ HostIdle /\ GeoIdle
    /\ DecodeIdle /\ LoaderIdle /\ FlagIdle

\* The cache with cfg.Lazy on, where the Go scheduler lets every caller that
\* reached scheduleRefresh and every refresh goroutine take its next step
\* (the refresh query returns within its 5 s timeout).
LazyInit == CacheInit /\ lazy

NextLazy ==
    \/ Tick
    \/ \E c \in DOMAIN q : QStart(c)
    \/ \E c \in DOMAIN q : QGetLocked(c)
    \/ \E c \in DOMAIN q : QGetAdjust(c)
    \/ \E c \in DOMAIN q : QSchedule(c)
    \/ \E c \in DOMAIN q : QDownstream(c)
    \/ \E c \in DOMAIN q : QStore(c)
    \/ \E i \in DOMAIN rtasks : RQuery(i)
    \/ \E i \in DOMAIN rtasks : RStore(i)
    \/ \E i \in DOMAIN rtasks : RRelease(i)

InitLazy == LazyInit /\ PersistIdle /\ EngineIdle /\ GroupIdle /\ ReconfIdle /\ ExprIdle /\ BuildIdle /\ KeyIdle
    /\ SizeIdle /\ ServerIdle /\ AhoIdle /\ DomainIdle /\ HostIdle /\ GeoIdle
    /\ DecodeIdle /\ LoaderIdle /\ FlagIdle

LazyFairness ==
    /\ WF_vars(\E c \in DOMAIN q : QSchedule(c))
    /\ WF_vars(\E i \in DOMAIN rtasks : RQuery(i))
    /\ WF_vars(\E i \in DOMAIN rtasks : RStore(i))
    /\ WF_vars(\E i \in DOMAIN rtasks : RRelease(i))

SpecLazy == InitLazy /\ [][NextLazy]_vars /\ LazyFairness

\* One query that missed an empty cache, in front of a downstream resolver
\* that answers with one fixed response of any shape (as the tests' mock).
StoreInit ==
    /\ now \in 0..1
    /\ lazy = FALSE
    /\ csize = 1
    /\ upstream \in {{m} : m \in AnyShape}
    /\ lru = <<>>
    /\ inflight = {}
    /\ dirty = FALSE
    /\ q = <<[CallerIdle EXCEPT !.pc = "miss", !.key = 1]>>
    /\ rtasks = <<>>
    /\ ncalls = 0
    /\ nqueries = MaxQueries
    /\ lastStored = [k \in Keys |-> NoEntry]

NextStore ==
    \/ \E c \in DOMAIN q : QDownstream(c)
    \/ \E c \in DOMAIN q : QStore(c)

InitStore == StoreInit /\ PersistIdle /\ EngineIdle /\ GroupIdle /\ ReconfIdle /\ ExprIdle /\ BuildIdle /\ KeyIdle
    /\ SizeIdle /\ ServerIdle /\ AhoIdle /\ DomainIdle /\ HostIdle /\ GeoIdle
    /\ DecodeIdle /\ LoaderIdle /\ FlagIdle

SpecStore == InitStore /\ [][NextStore]_vars

-----------------------------------------------------------------------------
(* Persistence of the cache: snapshot, persist, persistLoop, loadFromFile  *)
(* and the start of a new instance, src/internal/resolver/cache.go         *)

\* time.Time.UnixMilli and time.UnixMilli: the file keeps whole milliseconds.
UnixMilli(t) == t \div TicksPerMilli
FromUnixMilli(ms) == ms * TicksPerMilli

\* persistRecord of one entry. orig is history: the entry's exact expire.
PersistRecord(e) ==
    [key |-> e.key, expire |-> UnixMilli(e.expire), serial |-> e.serial,
     msg |-> e.msg, orig |-> e.expire]

\* a snapshot that misses the entry stored last
SnapshotWithoutNewest(l) == [i \in 1..(Len(l) - 1) |-> PersistRecord(l[i])]

\* snapshot: c.cache.Values(), oldest first.
Snapshot(l) == [i \in 1..Len(l) |-> PersistRecord(l[i])]

\* What a failed write may leave behind: a line that json.Unmarshal rejects.
TornLine ==
    [key |-> 0, expire |-> 0, serial |-> 0,
     msg |-> [serial |-> 0, ans |-> <<>>, ns |-> <<>>, extra |-> <<>>], orig |-> 0]

NewFile == [exists |-> TRUE, recs |-> <<>>]
FileAppend(f, rec) == [f EXCEPT !.recs = Append(f.recs, rec)]

\* persist, after tmpFile.Close: remove the temp file or rename it.
AfterCloseAlwaysRename(writeErr) == "rename"
AfterClose(writeErr) == IF writeErr THEN "cleanup" ELSE "rename"

\* loadFromFile: a record that is skipped because it has expired.
LoadSkipsAtExpiry(expire, t, lz) == expire <= t /\ ~lz
LoadSkips(expire, t, lz) == expire < t /\ ~lz

RECURSIVE LoadRecords(_, _, _, _, _)
LoadRecords(recs, l, t, lz, size) ==
    IF recs = <<>> THEN l
    ELSE LET rec == Head(recs)
             e == [key |-> rec.key, serial |-> rec.serial, msg |-> rec.msg,
                   expire |-> FromUnixMilli(rec.expire)]
         IN  IF rec.key = 0 \/ LoadSkips(e.expire, t, lz)
               THEN LoadRecords(Tail(recs), l, t, lz, size)
               ELSE LoadRecords(Tail(recs), LruAdd(l, e, size), t, lz, size)

\* loadFromFile: nothing to load when the file does not exist.
LoadFromFile(file, t, lz, size) ==
    IF file.exists THEN LoadRecords(file.recs, <<>>, t, lz, size) ELSE <<>>

\* The first instance, started with cfg.Persist over a path with no file.
PersistInit ==
    /\ persistOn = TRUE
    /\ fs = [main |-> NoFile, temp |-> NoFile]
    /\ ppc = "idle"
    /\ psnap = <<>>
    /\ pidx = 0
    /\ pwriteErr = FALSE
    /\ pfailed = FALSE
    /\ committed = NoFile
    /\ nticks = 0
    /\ nstarts = 0
    /\ restored = <<>>
    /\ pristine = TRUE

\* persistLoop, case <-ticker.C: skip when not dirty, else clear dirty and
\* go on to persist.
PTick ==
    /\ ppc = "idle"
    /\ nticks < MaxFlushTicks
    /\ nticks' = nticks + 1
    /\ IF dirty
         THEN dirty' = FALSE /\ ppc' = "snap" /\ pfailed' = FALSE
         ELSE UNCHANGED <<dirty, ppc, pfailed>>
    /\ UNCHANGED <<now, lazy, csize, upstream, lru, inflight, q, rtasks, ncalls,
                   nqueries, lastStored>>
    /\ UNCHANGED <<persistOn, fs, psnap, pidx, pwriteErr, committed, nstarts,
                   restored, pristine>>
    /\ UNCHANGED <<engineVars, groupVars, reconfVars, exprVars, buildVars, keyVars,
                   sizeVars, serverVars, ahoVars, domainVars, hostVars, geoVars,
                   decodeVars, loaderVars, flagVars>>

\* persist: snapshot := c.snapshot() under the lock, then os.MkdirAll and
\* os.OpenFile(path + ".temp", O_CREATE|O_TRUNC); if either fails the flush
\* ends there.
PBegin ==
    /\ ppc = "snap"
    /\ \/ /\ ppc' = "idle"
          /\ pfailed' = TRUE
          /\ UNCHANGED <<fs, psnap, pidx, pwriteErr>>
       \/ /\ psnap' = Snapshot(lru)
          /\ fs' = [fs EXCEPT !.temp = NewFile]
          /\ pidx' = 1
          /\ pwriteErr' = FALSE
          /\ ppc' = IF lru = <<>> THEN "close" ELSE "write"
          /\ UNCHANGED pfailed
    /\ UNCHANGED <<persistOn, committed, nticks, nstarts, restored, pristine>>
    /\ UNCHANGED <<engineVars, groupVars, cacheVars, reconfVars, exprVars, buildVars,
                   keyVars, sizeVars, serverVars, ahoVars, domainVars, hostVars,
                   geoVars, decodeVars, loaderVars, flagVars>>

\* persist: enc.Encode(rec) of the next record; on an error writeErr is set
\* and the loop is left.
PWrite ==
    /\ ppc = "write"
    /\ \/ /\ fs' = [fs EXCEPT !.temp = FileAppend(fs.temp, psnap[pidx])]
          /\ pidx' = pidx + 1
          /\ ppc' = IF pidx = Len(psnap) THEN "close" ELSE "write"
          /\ UNCHANGED pwriteErr
       \/ /\ \/ fs' = fs
             \/ fs' = [fs EXCEPT !.temp = FileAppend(fs.temp, TornLine)]
          /\ pwriteErr' = TRUE
          /\ ppc' = "close"
          /\ UNCHANGED pidx
    /\ UNCHANGED <<persistOn, psnap, pfailed, committed, nticks, nstarts, restored,
                   pristine>>
    /\ UNCHANGED <<engineVars, groupVars, cacheVars, reconfVars, exprVars, buildVars,
                   keyVars, sizeVars, serverVars, ahoVars, domainVars, hostVars,
                   geoVars, decodeVars, loaderVars, flagVars>>

\* persist: tmpFile.Close(), whose error also sets writeErr.
PClose ==
    /\ ppc = "close"
    /\ \E closeErr \in BOOLEAN :
         /\ pwriteErr' = (pwriteErr \/ closeErr)
         /\ ppc' = AfterClose(pwriteErr \/ closeErr)
    /\ UNCHANGED <<persistOn, fs, psnap, pidx, pfailed, committed, nticks, nstarts,
                   restored, pristine>>
    /\ UNCHANGED <<engineVars, groupVars, cacheVars, reconfVars, exprVars, buildVars,
                   keyVars, sizeVars, serverVars, ahoVars, domainVars, hostVars,
                   geoVars, decodeVars, loaderVars, flagVars>>

\* persist, writeErr: os.Remove(tmpPath), its error ignored, and return.
PCleanup ==
    /\ ppc = "cleanup"
    /\ \/ fs' = [fs EXCEPT !.temp = NoFile]
       \/ fs' = fs
    /\ ppc' = "idle"
    /\ pfailed' = TRUE
    /\ psnap' = <<>>
    /\ pidx' = 0
    /\ pwriteErr' = FALSE
    /\ UNCHANGED <<persistOn, committed, nticks, nstarts, restored, pristine>>
    /\ UNCHANGED <<engineVars, groupVars, cacheVars, reconfVars, exprVars, buildVars,
                   keyVars, sizeVars, serverVars, ahoVars, domainVars, hostVars,
                   geoVars, decodeVars, loaderVars, flagVars>>

\* persist: os.Rename(tmpPath, path); on an error the temp file is removed.
PRename ==
    /\ ppc = "rename"
    /\ \/ /\ fs' = [main |-> fs.temp, temp |-> NoFile]
          /\ committed' = [exists |-> TRUE, recs |-> psnap]
          /\ pfailed' = FALSE
       \/ /\ \/ fs' = [fs EXCEPT !.temp = NoFile]
             \/ fs' = fs
          /\ pfailed' = TRUE
          /\ UNCHANGED committed
    /\ ppc' = "idle"
    /\ psnap' = <<>>
    /\ pidx' = 0
    /\ pwriteErr' = FALSE
    /\ UNCHANGED <<persistOn, nticks, nstarts, restored, pristine>>
    /\ UNCHANGED <<engineVars, groupVars, cacheVars, reconfVars, exprVars, buildVars,
                   keyVars, sizeVars, serverVars, ahoVars, domainVars, hostVars,
                   geoVars, decodeVars, loaderVars, flagVars>>

\* A new instance over the same file and options: ConfigureCache after
\* old.Close(), or a new process after the old one ended at any point.
\* newCacheManager: a new LRU, loadFromFile, a new persistLoop.
Start ==
    /\ persistOn
    /\ nstarts < MaxStarts
    /\ nstarts' = nstarts + 1
    /\ lru' = LoadFromFile(fs.main, now, lazy, csize)
    /\ inflight' = {}
    /\ dirty' = FALSE
    /\ q' = [c \in DOMAIN q |-> CallerIdle]
    /\ rtasks' = <<>>
    /\ lastStored' = [k \in Keys |-> NoEntry]
    /\ ppc' = "idle"
    /\ psnap' = <<>>
    /\ pidx' = 0
    /\ pwriteErr' = FALSE
    /\ pfailed' = FALSE
    /\ restored' = fs.main.recs
    /\ pristine' = TRUE
    /\ UNCHANGED <<now, lazy, csize, upstream, ncalls, nqueries>>
    /\ UNCHANGED <<persistOn, fs, committed, nticks>>
    /\ UNCHANGED <<engineVars, groupVars, reconfVars, exprVars, buildVars, keyVars,
                   sizeVars, serverVars, ahoVars, domainVars, hostVars, geoVars,
                   decodeVars, loaderVars, flagVars>>

NextPersist ==
    \/ \E c \in DOMAIN q : QStart(c)
    \/ \E c \in DOMAIN q : QGetLocked(c)
    \/ \E c \in DOMAIN q : QGetAdjust(c)
    \/ \E c \in DOMAIN q : QDownstream(c)
    \/ \E c \in DOMAIN q : QStore(c)
    \/ PTick
    \/ PBegin
    \/ PWrite
    \/ PClose
    \/ PCleanup
    \/ PRename
    \/ Start

\* The cache in front of the persistence goroutine, with one caller of Query.
PersistCacheInit ==
    /\ now = 0
    /\ lazy \in BOOLEAN
    /\ csize \in 1..MaxSize
    /\ upstream = AnswerOnly
    /\ lru = <<>>
    /\ inflight = {}
    /\ dirty = FALSE
    /\ q = <<CallerIdle>>
    /\ rtasks = <<>>
    /\ ncalls = 0
    /\ nqueries = 0
    /\ lastStored = [k \in Keys |-> NoEntry]

InitPersist == PersistCacheInit /\ PersistInit /\ EngineIdle /\ GroupIdle /\ ReconfIdle /\ ExprIdle /\ BuildIdle /\ KeyIdle
    /\ SizeIdle /\ ServerIdle /\ AhoIdle /\ DomainIdle /\ HostIdle /\ GeoIdle
    /\ DecodeIdle /\ LoaderIdle /\ FlagIdle

SpecPersist == InitPersist /\ [][NextPersist]_vars

\* An entry as store leaves it: response number serial for key k, cached at t0.
StoredEntry(k, serial, t0) ==
    LET resp == MkMsg(serial, [ans |-> <<MaxTTL>>, ns |-> <<>>, extra |-> <<>>]) IN
    [key |-> k, serial |-> serial, msg |-> resp, expire |-> StoreExpire(t0, resp)]

\* The caches that stores at or before t can have built: distinct keys, the
\* responses numbered in the order they were stored.
CachesAt(t, size) ==
    LET EntrySpace == {StoredEntry(k, n, t0) : k \in Keys, n \in 1..size, t0 \in 0..t}
    IN  {l \in SeqsUpTo(EntrySpace, size) :
           /\ \A i, j \in 1..Len(l) : i # j => l[i].key # l[j].key
           /\ {l[i].serial : i \in 1..Len(l)} = 1..Len(l)
           /\ \A i, j \in 1..Len(l) : l[i].serial < l[j].serial => l[i].expire <= l[j].expire}

\* A running instance whose cache has just been flushed to the file.
FlushedInit ==
    /\ now \in 0..MaxTime
    /\ lazy \in BOOLEAN
    /\ csize \in 1..MaxSize
    /\ upstream = AnswerOnly
    /\ lru \in CachesAt(now, csize)
    /\ inflight = {}
    /\ dirty = FALSE
    /\ q = <<CallerIdle>>
    /\ rtasks = <<>>
    /\ ncalls = Len(lru)
    /\ nqueries = Len(lru)
    /\ lastStored = [k \in Keys |-> IF LruHas(lru, k) THEN LruEntry(lru, k) ELSE NoEntry]
    /\ persistOn = TRUE
    /\ fs = [main |-> [exists |-> TRUE, recs |-> Snapshot(lru)], temp |-> NoFile]
    /\ ppc = "idle"
    /\ psnap = <<>>
    /\ pidx = 0
    /\ pwriteErr = FALSE
    /\ pfailed = FALSE
    /\ committed = [exists |-> TRUE, recs |-> Snapshot(lru)]
    /\ nticks = 1
    /\ nstarts = 0
    /\ restored = <<>>
    /\ pristine = FALSE

NextRestart ==
    \/ Start
    \/ Next

InitRestart == FlushedInit /\ EngineIdle /\ GroupIdle /\ ReconfIdle /\ ExprIdle /\ BuildIdle /\ KeyIdle
    /\ SizeIdle /\ ServerIdle /\ AhoIdle /\ DomainIdle /\ HostIdle /\ GeoIdle
    /\ DecodeIdle /\ LoaderIdle /\ FlagIdle

SpecRestart == InitRestart /\ [][NextRestart]_vars

-----------------------------------------------------------------------------
(* Reconfiguration: ConfigureCache, newCacheManager, Close and the         *)
(* persistLoop of every instance, src/internal/resolver/cache.go.          *)
(* ConfigureCache is called from the start-up code, one call at a time.    *)

\* newCacheManager: the persistence goroutine exists only under cfg.Persist.
NewInstance(persist) ==
    [persist |-> persist,
     loop |-> IF persist THEN "select" ELSE "none",
     chClosed |-> FALSE,   \* close(c.ch) has run
     returned |-> FALSE,   \* Close has returned
     writes |-> 0,         \* flushes this instance has made
     late |-> FALSE]       \* history: it flushed after its Close returned

LoopRunning(inst) == inst.loop \in {"select", "persist"}

\* Close: c.wg.Wait() returns once the persistence goroutine has ended.
WaitReturnsAtOnce(inst) == TRUE

WaitReturns(inst) == ~LoopRunning(inst)

ReconfInit ==
    /\ insts = <<>>
    /\ cpc = "idle"
    /\ copt = FALSE
    /\ installed = 0

\* ConfigureCache: the options are fixed up and the old manager is loaded.
CfgBegin ==
    /\ cpc = "idle"
    /\ Len(insts) < MaxInstances
    /\ copt' \in BOOLEAN
    /\ cpc' = IF installed # 0 THEN "close" ELSE "new"
    /\ UNCHANGED <<insts, installed>>
    /\ UNCHANGED <<engineVars, groupVars, cacheVars, persistVars, exprVars, buildVars,
                   keyVars, sizeVars, serverVars, ahoVars, domainVars, hostVars,
                   geoVars, decodeVars, loaderVars, flagVars>>

\* old.Close(): close(c.ch).
CfgClose ==
    /\ cpc = "close"
    /\ insts' = [insts EXCEPT ![installed].chClosed = TRUE]
    /\ cpc' = "wait"
    /\ UNCHANGED <<copt, installed>>
    /\ UNCHANGED <<engineVars, groupVars, cacheVars, persistVars, exprVars, buildVars,
                   keyVars, sizeVars, serverVars, ahoVars, domainVars, hostVars,
                   geoVars, decodeVars, loaderVars, flagVars>>

\* old.Close(): c.wg.Wait() returns.
CfgWait ==
    /\ cpc = "wait"
    /\ WaitReturns(insts[installed])
    /\ insts' = [insts EXCEPT ![installed].returned = TRUE]
    /\ cpc' = "new"
    /\ UNCHANGED <<copt, installed>>
    /\ UNCHANGED <<engineVars, groupVars, cacheVars, persistVars, exprVars, buildVars,
                   keyVars, sizeVars, serverVars, ahoVars, domainVars, hostVars,
                   geoVars, decodeVars, loaderVars, flagVars>>

\* mgr := newCacheManager(opt), which starts the new persistLoop.
CfgNew ==
    /\ cpc = "new"
    /\ insts' = Append(insts, NewInstance(copt))
    /\ cpc' = "store"
    /\ UNCHANGED <<copt, installed>>
    /\ UNCHANGED <<engineVars, groupVars, cacheVars, persistVars, exprVars, buildVars,
                   keyVars, sizeVars, serverVars, ahoVars, domainVars, hostVars,
                   geoVars, decodeVars, loaderVars, flagVars>>

\* globalCacheManager.Store(mgr).
CfgStore ==
    /\ cpc = "store"
    /\ installed' = Len(insts)
    /\ cpc' = "idle"
    /\ UNCHANGED <<insts, copt>>
    /\ UNCHANGED <<engineVars, groupVars, cacheVars, persistVars, exprVars, buildVars,
                   keyVars, sizeVars, serverVars, ahoVars, domainVars, hostVars,
                   geoVars, decodeVars, loaderVars, flagVars>>

\* persistLoop of instance i, case <-ticker.C with c.dirty set. The select
\* may take this case also when c.ch is already closed.
LoopTick(i) ==
    /\ insts[i].loop = "select"
    /\ insts[i].writes < MaxFlushTicks
    /\ insts' = [insts EXCEPT ![i].loop = "persist"]
    /\ UNCHANGED <<cpc, copt, installed>>
    /\ UNCHANGED <<engineVars, groupVars, cacheVars, persistVars, exprVars, buildVars,
                   keyVars, sizeVars, serverVars, ahoVars, domainVars, hostVars,
                   geoVars, decodeVars, loaderVars, flagVars>>

\* persistLoop of instance i: c.persist(ctx) writes the files and returns.
LoopPersist(i) ==
    /\ insts[i].loop = "persist"
    /\ insts' = [insts EXCEPT ![i].loop = "select",
                              ![i].writes = @ + 1,
                              ![i].late = @ \/ insts[i].returned]
    /\ UNCHANGED <<cpc, copt, installed>>
    /\ UNCHANGED <<engineVars, groupVars, cacheVars, persistVars, exprVars, buildVars,
                   keyVars, sizeVars, serverVars, ahoVars, domainVars, hostVars,
                   geoVars, decodeVars, loaderVars, flagVars>>

\* persistLoop of instance i, case <-c.ch: the goroutine returns.
LoopExit(i) ==
    /\ insts[i].loop = "select"
    /\ insts[i].chClosed
    /\ insts' = [insts EXCEPT ![i].loop = "exited"]
    /\ UNCHANGED <<cpc, copt, installed>>
    /\ UNCHANGED <<engineVars, groupVars, cacheVars, persistVars, exprVars, buildVars,
                   keyVars, sizeVars, serverVars, ahoVars, domainVars, hostVars,
                   geoVars, decodeVars, loaderVars, flagVars>>

NextReconf ==
    \/ CfgBegin
    \/ CfgClose
    \/ CfgWait
    \/ CfgNew
    \/ CfgStore
    \/ \E i \in DOMAIN insts : LoopTick(i)
    \/ \E i \in DOMAIN insts : LoopPersist(i)
    \/ \E i \in DOMAIN insts : LoopExit(i)

InitReconf == ReconfInit /\ EngineIdle /\ GroupIdle /\ CacheIdle /\ PersistIdle /\ ExprIdle /\ BuildIdle /\ KeyIdle
    /\ SizeIdle /\ ServerIdle /\ AhoIdle /\ DomainIdle /\ HostIdle /\ GeoIdle
    /\ DecodeIdle /\ LoaderIdle /\ FlagIdle

SpecReconf == InitReconf /\ [][NextReconf]_vars

Spec == Init /\ [][Next]_vars

-----------------------------------------------------------------------------
(* Cache manager: claims *)

\* Refresh goroutines of key k that have been spawned and have not exited.
TasksInFlight(k) == {i \in DOMAIN rtasks : rtasks[i].key = k /\ rtasks[i].pc # "exit"}

\* C3: with lazy enabled, at every instant at most one refresh task is in
\* flight per cache key.
C3_SingleFlight ==
    \A k \in Keys : Cardinality(TasksInFlight(k)) <= 1

\* C3 witness: a refresh of a key is in flight while another caller, having
\* found the same entry expired, returned the stale response without
\* spawning a second one.
C3_Witness ==
    /\ lazy
    /\ \E k \in Keys :
         /\ Cardinality(TasksInFlight(k)) = 1
         /\ Len(rtasks) = 1
         /\ \A c \in DOMAIN q : q[c].key = k /\ q[c].pc = "done" /\ q[c].ret = "stale"

\* C4: with lazy enabled and an expired entry, queries for the same key that
\* run at the same time cause at most one downstream refresh call: no refresh
\* queries the downstream for a caller that looked the expired entry up
\* before another refresh of that key was spawned.
C4_OneRefreshForSimultaneousQueries ==
    lazy => \A i \in DOMAIN rtasks : ~(rtasks[i].dup /\ rtasks[i].pc # "query")

\* Every TTL of a response.
TTLsOf(m) == {m.ans[i] : i \in DOMAIN m.ans} \cup {m.ns[i] : i \in DOMAIN m.ns}
             \cup {m.extra[i] : i \in DOMAIN m.extra}

\* The caller found an entry and read the clock after the entry's expire instant.
SawExpired(c) == q[c].ent # NoEntry /\ q[c].tq >= 0 /\ q[c].tq > q[c].ent.expire

\* C5: with lazy disabled, a query that reads the clock after an entry's
\* expire instant never answers with that entry: a response is served from
\* the cache only at or before its expire instant, and a query that saw the
\* entry expired has it evicted and answers from a new downstream query.
C5_NoExpiredAnswerWhenNotLazy ==
    ~lazy =>
      \A c \in DOMAIN q :
        /\ q[c].ret # "stale"
        /\ q[c].ret = "hit" => q[c].tq <= q[c].ent.expire
        /\ SawExpired(c) =>
             /\ q[c].pc \in {"remove", "miss", "store", "done"}
             /\ q[c].pc # "remove" =>
                  ~\E i \in 1..Len(lru) : lru[i].serial = q[c].ent.serial
             /\ q[c].pc = "done" =>
                  /\ q[c].ret \in {"down", "err"}
                  /\ q[c].ndown = 1
                  /\ q[c].ret = "down" => q[c].msg.serial > q[c].ent.serial

\* C5 witness: lazy is off and a caller that found the entry expired has
\* returned the answer of a new downstream query.
C5_Witness ==
    /\ ~lazy
    /\ \E c \in DOMAIN q : SawExpired(c) /\ q[c].pc = "done" /\ q[c].ret = "down"

StatedTTL(msg) ==
    LET pos(sq) == SelectSeq(sq, LAMBDA x : x > 0) IN
    IF pos(msg.ans) # <<>> THEN [ttl |-> SeqMin(pos(msg.ans)), found |-> TRUE]
    ELSE IF pos(msg.ns) # <<>> THEN [ttl |-> SeqMin(pos(msg.ns)), found |-> TRUE]
    ELSE IF pos(msg.extra) # <<>> THEN [ttl |-> SeqMin(pos(msg.extra)), found |-> TRUE]
    ELSE [ttl |-> 0, found |-> FALSE]

\* C7: after a successful downstream response the entry is stored with a
\* lifetime equal to the minimum positive TTL of the answer section, else of
\* the authority section, else of the additional section; the response is
\* left uncached only if no section has a positive TTL.
C7_LifetimeIsMinPositiveTTL ==
    \A c \in DOMAIN q :
      (q[c].pc = "done" /\ q[c].ret = "down") =>
        IF StatedTTL(q[c].msg).found
          THEN /\ LruHas(lru, q[c].key)
               /\ LruEntry(lru, q[c].key).serial = q[c].msg.serial
               /\ LruEntry(lru, q[c].key).expire =
                    now + StatedTTL(q[c].msg).ttl * TicksPerSecond
          ELSE ~LruHas(lru, q[c].key)

\* C8: at every instant during and after a flush, also one that fails
\* part-way, the file at the configured path is either absent (no flush has
\* completed yet) or holds, complete and unchanged, the snapshot of the last
\* flush whose rename succeeded: never a partially written one.
C8_FileIsCompleteSnapshot ==
    /\ fs.main = committed
    /\ \A i \in DOMAIN fs.main.recs : fs.main.recs[i] # TornLine

\* C8 witness: a flush has failed part-way, a torn line in its temp file,
\* while the file still holds the different, previous snapshot.
C8_Witness ==
    /\ ppc = "close"
    /\ pwriteErr
    /\ fs.temp.exists
    /\ \E i \in DOMAIN fs.temp.recs : fs.temp.recs[i] = TornLine
    /\ fs.main.exists
    /\ fs.main.recs # <<>>
    /\ fs.main.recs # psnap

\* A query has returned that looked the cache up after the start from the
\* file, before any store or remove, for the key of record r of that file.
QueriedRestored(c, r) == q[c].pc = "done" /\ q[c].fresh /\ r.key = q[c].key

\* The cached response of record r, without a downstream query.
ServedRestored(c, r) ==
    q[c].ret = "hit" /\ q[c].ndown = 0 /\ q[c].msg.serial = r.serial

\* C9 (original statement): after a flush and a start of a new instance from
\* the file, a query for a key whose entry has not expired (the query
\* returns at or before the entry's expire instant) returns the previously
\* cached response without a downstream query.
C9_RestoredEntryServed ==
    \A c \in DOMAIN q : \A i \in DOMAIN restored :
      (QueriedRestored(c, restored[i]) /\ now <= restored[i].orig) =>
        ServedRestored(c, restored[i])

\* C9 (amended): the same, for a key whose entry's expire instant, cut down
\* to the whole millisecond the file keeps, has not passed.
C9_RestoredEntryServedToTheMillisecond ==
    \A c \in DOMAIN q : \A i \in DOMAIN restored :
      (QueriedRestored(c, restored[i])
         /\ now <= restored[i].orig - (restored[i].orig % TicksPerMilli)) =>
        ServedRestored(c, restored[i])

\* C9 witness: a query after the start is served the restored response in
\* the last whole millisecond of an entry whose expire instant was cut down.
C9_Witness ==
    \E c \in DOMAIN q : \E i \in DOMAIN restored :
      /\ QueriedRestored(c, restored[i])
      /\ ServedRestored(c, restored[i])
      /\ restored[i].orig % TicksPerMilli # 0
      /\ q[c].tq = restored[i].orig - (restored[i].orig % TicksPerMilli)

\* C10: when a periodic flush has failed, the next tick of the persistence
\* ticker attempts the flush again.
C10_FailedFlushRetriedAtNextTick ==
    [][(ppc = "idle" /\ pfailed /\ nticks' = nticks + 1) => ppc' = "snap"]_vars

\* How many refresh goroutines have made their downstream query for key k.
RefreshQueries(k) ==
    Cardinality({i \in DOMAIN rtasks : rtasks[i].key = k /\ rtasks[i].pc # "query"})

\* The run has used up the refresh goroutines or downstream queries it may make.
RunExhausted == Len(rtasks) = MaxRefresh \/ ncalls = MaxCalls

\* The cache holds the response that refresh i received.
HoldsFresh(i) ==
    IF i <= Len(rtasks) /\ rtasks[i].ok
      THEN \E j \in 1..Len(lru) :
             lru[j].key = rtasks[i].key /\ lru[j].serial = rtasks[i].msg.serial
      ELSE FALSE

\* Refresh i's downstream query succeeded.
RefreshSucceeded(i) == IF i <= Len(rtasks) THEN rtasks[i].ok ELSE FALSE

\* Refresh i's downstream query succeeded with a response that store accepts.
RefreshCacheable(i) ==
    IF RefreshSucceeded(i) THEN Cacheable(rtasks[i].msg) ELSE FALSE

\* History: the cache held the response of refresh i when its store returned.
HeldFresh(i) == IF i <= Len(rtasks) THEN rtasks[i].held ELSE FALSE

\* Position of refresh goroutine i, if it has been started.
TaskPc(i) == IF i <= Len(rtasks) THEN rtasks[i].pc ELSE "none"

RefreshCutOff(k) ==
    ncalls = MaxCalls /\ \E i \in TasksInFlight(k) : rtasks[i].pc = "query"

\* C12: every key added to the in-flight set is eventually removed from it,
\* whether its refresh query succeeds or fails (a timeout is a failure); and
\* the marker never outlives its refresh task: a key is in the set exactly
\* while a refresh task of it exists.
C12_InflightMarkerReleased ==
    /\ [](\A k \in Keys : k \in inflight <=> TasksInFlight(k) # {})
    /\ \A k \in Keys : (k \in inflight) ~> (k \notin inflight \/ RefreshCutOff(k))

\* C12 witness: one refresh has ended after a failed query and another after
\* a successful one, and neither key is in flight any more.
C12_Witness ==
    /\ \E i \in DOMAIN rtasks : rtasks[i].pc = "exit" /\ ~rtasks[i].ok
    /\ \E i \in DOMAIN rtasks : rtasks[i].pc = "exit" /\ rtasks[i].ok
    /\ inflight = {}

\* C13: reconfiguring the cache closes the previous instance, and that
\* instance's persistence loop has exited, before the new instance is built
\* and installed; so at most one persistence loop is running at any time and
\* a closed instance makes no further file writes.
C13_OldLoopExitsBeforeNewInstance ==
    /\ \A i \in 1..(Len(insts) - 1) :
         insts[i].chClosed /\ insts[i].returned /\ ~LoopRunning(insts[i])
    /\ Cardinality({i \in DOMAIN insts : LoopRunning(insts[i])}) <= 1
    /\ \A i \in DOMAIN insts : ~insts[i].late
    /\ installed # 0 /\ installed # Len(insts) => cpc = "store"

\* C13 witness: an instance that was flushing has been closed, its loop has
\* exited, and its successor is installed and flushing.
C13_Witness ==
    /\ Len(insts) >= 2
    /\ installed = Len(insts)
    /\ insts[installed - 1].writes > 0
    /\ insts[installed - 1].loop = "exited"
    /\ insts[installed].loop = "persist"

-----------------------------------------------------------------------------
(* Expression matcher: src/internal/matcher/expression.go *)

\* The token kinds an expression is made of, and the ways an operator can be
\* written: the symbol, or the keyword in lower, upper or mixed case.
OperatorKinds == {"and", "or", "not"}
Kinds == Names \cup OperatorKinds \cup {"lparen", "rparen"}
Spellings == {"symbol", "lower", "upper", "mixed"}

Spell(kind, spelling) ==
    CASE kind = "and" ->
           (CASE spelling = "symbol" -> "&&" [] spelling = "lower" -> "and"
              [] spelling = "upper" -> "AND" [] OTHER -> "And")
      [] kind = "or" ->
           (CASE spelling = "symbol" -> "||" [] spelling = "lower" -> "or"
              [] spelling = "upper" -> "OR" [] OTHER -> "oR")
      [] kind = "not" ->
           (CASE spelling = "symbol" -> "!" [] spelling = "lower" -> "not"
              [] spelling = "upper" -> "NOT" [] OTHER -> "nOt")
      [] kind = "lparen" -> "("
      [] kind = "rparen" -> ")"
      [] OTHER -> kind

Spelled(kinds, spelling) == [i \in 1..Len(kinds) |-> Spell(kinds[i], spelling)]

\* The well-formed infix expressions of exactly n tokens, by the level of the
\* grammar: a primary, a chain of nots, a chain of ands, a chain of ors.
RECURSIVE PrimaryOfLen(_), UnaryOfLen(_), AndOfLen(_), OrOfLen(_)
PrimaryOfLen(n) ==
    IF n = 1 THEN {<<x>> : x \in Names}
    ELSE IF n >= 3 THEN {<<"lparen">> \o e \o <<"rparen">> : e \in OrOfLen(n - 2)}
    ELSE {}

UnaryOfLen(n) ==
    IF n < 1 THEN {}
    ELSE PrimaryOfLen(n) \cup {<<"not">> \o e : e \in UnaryOfLen(n - 1)}

AndOfLen(n) ==
    IF n < 1 THEN {}
    ELSE UnaryOfLen(n) \cup
         UNION {{l \o <<"and">> \o r : l \in AndOfLen(k), r \in UnaryOfLen(n - k - 1)} :
                  k \in 1..(n - 2)}

OrOfLen(n) ==
    IF n < 1 THEN {}
    ELSE AndOfLen(n) \cup
         UNION {{l \o <<"or">> \o r : l \in OrOfLen(k), r \in AndOfLen(n - k - 1)} :
                  k \in 1..(n - 2)}

\* The expressions BuildExpressionMatcher is given: every sequence of up to
\* MaxTokens tokens, and every well-formed one of up to MaxWellFormed tokens,
\* in each spelling.
ExprInputs ==
    {Spelled(e, sp) :
       e \in SeqsUpTo(Kinds, MaxTokens) \cup UNION {OrOfLen(n) : n \in 1..MaxWellFormed},
       sp \in Spellings}

ExprInit ==
    /\ xwords \in ExprInputs
    /\ xreg = Names
    /\ xpc = "new"
    /\ xroot = NoNode
    /\ xerr = ""
    /\ xassign = [n \in Names |-> FALSE]
    /\ xlog = <<>>
    /\ xval = FALSE

\* strings.ToLower on a field of the expression.
ToLower(part) ==
    CASE part \in {"AND", "And"} -> "and"
      [] part \in {"OR", "oR"} -> "or"
      [] part \in {"NOT", "nOt"} -> "not"
      [] OTHER -> part

\* tokenizeExpression: the switch on strings.ToLower(part) for each field.
tokenOf(part) ==
    LET low == ToLower(part) IN
      CASE low \in {"&&", "and"} -> [typ |-> "tokenAnd", value |-> ""]
        [] low \in {"||", "or"} -> [typ |-> "tokenOr", value |-> ""]
        [] low \in {"!", "not"} -> [typ |-> "tokenNot", value |-> ""]
        [] low = "(" -> [typ |-> "tokenLParen", value |-> ""]
        [] low = ")" -> [typ |-> "tokenRParen", value |-> ""]
        [] OTHER -> [typ |-> "tokenIdentifier", value |-> part]

tokenizeExpression(fields) == [i \in 1..Len(fields) |-> tokenOf(fields[i])]

precedenceFlat(t) ==
    CASE t.typ = "tokenNot" -> 3
      [] t.typ = "tokenAnd" -> 2
      [] t.typ = "tokenOr" -> 2
      [] OTHER -> 0

precedence(t) ==
    CASE t.typ = "tokenNot" -> 3
      [] t.typ = "tokenAnd" -> 2
      [] t.typ = "tokenOr" -> 1
      [] OTHER -> 0

Top(stack) == stack[Len(stack)]
Pop(stack) == SubSeq(stack, 1, Len(stack) - 1)

\* shuntingYard, case tokenNot: the loop that moves operators to the output.
RECURSIVE popForNot(_, _, _)
popForNot(output, ops, tk) ==
    IF Len(ops) > 0 /\ Top(ops).typ # "tokenLParen"
                    /\ precedence(Top(ops)) > precedence(tk)
      THEN popForNot(Append(output, Top(ops)), Pop(ops), tk)
      ELSE [output |-> output, ops |-> ops]

\* shuntingYard, case tokenAnd, tokenOr: likewise, with >= and the break at
\* a left parenthesis.
RECURSIVE popForBinary(_, _, _)
popForBinary(output, ops, tk) ==
    IF Len(ops) > 0 /\ precedence(Top(ops)) >= precedence(tk)
                    /\ Top(ops).typ # "tokenLParen"
      THEN popForBinary(Append(output, Top(ops)), Pop(ops), tk)
      ELSE [output |-> output, ops |-> ops]

\* shuntingYard, case tokenRParen: pop up to and including the left
\* parenthesis.
RECURSIVE popToLParen(_, _)
popToLParen(output, ops) ==
    IF Len(ops) = 0 THEN [output |-> output, ops |-> ops, found |-> FALSE]
    ELSE IF Top(ops).typ = "tokenLParen"
      THEN [output |-> output, ops |-> Pop(ops), found |-> TRUE]
      ELSE popToLParen(Append(output, Top(ops)), Pop(ops))

\* shuntingYard, the loop after the tokens: the operators left over.
RECURSIVE drainOps(_, _)
drainOps(output, ops) ==
    IF Len(ops) = 0 THEN [output |-> output, err |-> ""]
    ELSE IF Top(ops).typ \in {"tokenLParen", "tokenRParen"}
      THEN [output |-> <<>>, err |-> "mismatched parentheses in expression"]
      ELSE drainOps(Append(output, Top(ops)), Pop(ops))

\* shuntingYard: the loop over the tokens from index i on.
RECURSIVE shuntFrom(_, _, _, _)
shuntFrom(tokens, i, output, ops) ==
    IF i > Len(tokens) THEN drainOps(output, ops)
    ELSE LET tk == tokens[i] IN
      CASE tk.typ = "tokenIdentifier" ->
             shuntFrom(tokens, i + 1, Append(output, tk), ops)
        [] tk.typ = "tokenNot" ->
             LET r == popForNot(output, ops, tk) IN
               shuntFrom(tokens, i + 1, r.output, Append(r.ops, tk))
        [] tk.typ \in {"tokenAnd", "tokenOr"} ->
             LET r == popForBinary(output, ops, tk) IN
               shuntFrom(tokens, i + 1, r.output, Append(r.ops, tk))
        [] tk.typ = "tokenLParen" ->
             shuntFrom(tokens, i + 1, output, Append(ops, tk))
        [] OTHER ->
             LET r == popToLParen(output, ops) IN
               IF r.found THEN shuntFrom(tokens, i + 1, r.output, r.ops)
               ELSE [output |-> <<>>, err |-> "mismatched parentheses in expression"]

shuntingYard(tokens) == shuntFrom(tokens, 1, <<>>, <<>>)

\* parseExpression, case tokenIdentifier: mt, ok := registry[tk.value].
RegisteredAlways(name, registry) == TRUE

Registered(name, registry) == name \in registry

\* parseExpression: the loop over the tokens in postfix order, from index i
\* on, with the stack of nodes built so far.
RECURSIVE parseFrom(_, _, _, _)
parseFrom(rpn, i, stack, registry) ==
    IF i > Len(rpn)
      THEN (IF Len(stack) # 1
              THEN [root |-> NoNode, err |-> "invalid expression: unresolved operands remain"]
              ELSE [root |-> stack[1], err |-> ""])
    ELSE LET tk == rpn[i] IN
      CASE tk.typ = "tokenIdentifier" ->
             IF ~Registered(tk.value, registry)
               THEN [root |-> NoNode, err |-> "matcher not found"]
               ELSE parseFrom(rpn, i + 1,
                              Append(stack, [kind |-> "matcher", matcher |-> tk.value]),
                              registry)
        [] tk.typ = "tokenNot" ->
             IF Len(stack) < 1
               THEN [root |-> NoNode, err |-> "invalid expression: missing operand for NOT"]
               ELSE parseFrom(rpn, i + 1,
                              Append(Pop(stack), [kind |-> "not", child |-> Top(stack)]),
                              registry)
        [] tk.typ \in {"tokenAnd", "tokenOr"} ->
             IF Len(stack) < 2
               THEN [root |-> NoNode,
                     err |-> "invalid expression: missing operands for binary operator"]
               ELSE parseFrom(rpn, i + 1,
                              Append(Pop(Pop(stack)),
                                     [kind |-> "binary",
                                      op |-> (IF tk.typ = "tokenAnd" THEN "opAnd" ELSE "opOr"),
                                      left |-> stack[Len(stack) - 1],
                                      right |-> Top(stack)]),
                              registry)
        [] OTHER -> [root |-> NoNode, err |-> "unexpected token in rpn"]

parseExpression(tokens, registry) ==
    LET rpn == shuntingYard(tokens) IN
      IF rpn.err # "" THEN [root |-> NoNode, err |-> rpn.err]
      ELSE parseFrom(rpn.output, 1, <<>>, registry)

\* BuildExpressionMatcher, for the fields of the trimmed expression.
BuildExpressionMatcher(fields, registry) ==
    IF fields = <<>> THEN [root |-> NoNode, err |-> "empty matcher expression"]
    ELSE parseExpression(tokenizeExpression(fields), registry)

\* binaryNode.eval: whether it returns after the left operand, with the left
\* operand's value.
ReturnsAfterLeftNever(op, leftOK) == FALSE

ReturnsAfterLeft(op, leftOK) ==
    IF op = "opAnd" THEN ~leftOK ELSE leftOK

\* eval of a node: the value, and the matchers called on the way, in order.
RECURSIVE eval(_, _)
eval(node, assign) ==
    CASE node.kind = "matcher" ->
           [ok |-> assign[node.matcher], log |-> <<node.matcher>>]
      [] node.kind = "not" ->
           LET c == eval(node.child, assign) IN [ok |-> ~c.ok, log |-> c.log]
      [] OTHER ->
           LET l == eval(node.left, assign) IN
             IF ReturnsAfterLeft(node.op, l.ok) THEN l
             ELSE LET r == eval(node.right, assign) IN
                    [ok |-> r.ok, log |-> l.log \o r.log]

\* A call of BuildExpressionMatcher with the registry at hand.
ExprBuild ==
    /\ xpc = "new"
    /\ LET r == BuildExpressionMatcher(xwords, xreg) IN
         /\ xroot' = r.root
         /\ xerr' = r.err
         /\ xpc' = (IF r.err = "" THEN "built" ELSE "failed")
    /\ UNCHANGED <<xwords, xreg, xassign, xlog, xval>>
    /\ UNCHANGED <<engineVars, groupVars, cacheVars, persistVars, reconfVars,
                   buildVars, keyVars, sizeVars, serverVars, ahoVars, domainVars,
                   hostVars, geoVars, decodeVars, loaderVars, flagVars>>

\* expressionMatcher.Match for a request, with matchers that answer as in
\* some assignment.
ExprMatch ==
    /\ xpc = "built"
    /\ \E assign \in [Names -> BOOLEAN] :
         LET r == eval(xroot, assign) IN
           /\ xassign' = assign
           /\ xlog' = r.log
           /\ xval' = r.ok
    /\ xpc' = "matched"
    /\ UNCHANGED <<xwords, xreg, xroot, xerr>>
    /\ UNCHANGED <<engineVars, groupVars, cacheVars, persistVars, reconfVars,
                   buildVars, keyVars, sizeVars, serverVars, ahoVars, domainVars,
                   hostVars, geoVars, decodeVars, loaderVars, flagVars>>

NextExpr == ExprBuild \/ ExprMatch

InitExpr == ExprInit /\ EngineIdle /\ GroupIdle /\ CacheIdle /\ PersistIdle /\ ReconfIdle /\ BuildIdle /\ KeyIdle
    /\ SizeIdle /\ ServerIdle /\ AhoIdle /\ DomainIdle /\ HostIdle /\ GeoIdle
    /\ DecodeIdle /\ LoaderIdle /\ FlagIdle

SpecExpr == InitExpr /\ [][NextExpr]_vars

\* The same calls with a registry that holds any subset of the names.
RegistryInit ==
    /\ xwords \in ExprInputs
    /\ xreg \in SUBSET Names
    /\ xpc = "new"
    /\ xroot = NoNode
    /\ xerr = ""
    /\ xassign = [n \in Names |-> FALSE]
    /\ xlog = <<>>
    /\ xval = FALSE

InitRegistry ==
    RegistryInit /\ EngineIdle /\ GroupIdle /\ CacheIdle /\ PersistIdle /\ ReconfIdle /\ BuildIdle /\ KeyIdle
    /\ SizeIdle /\ ServerIdle /\ AhoIdle /\ DomainIdle /\ HostIdle /\ GeoIdle
    /\ DecodeIdle /\ LoaderIdle /\ FlagIdle

SpecRegistry == InitRegistry /\ [][NextExpr]_vars

-----------------------------------------------------------------------------
(* Expression matcher: claims *)

\* What a field of the expression stands for: the operator or parenthesis it
\* spells in some letter case, or the matcher it names.
KindOf(word) == CHOOSE k \in Kinds : \E sp \in Spellings : Spell(k, sp) = word

KindAt(words, p) == IF p <= Len(words) THEN KindOf(words[p]) ELSE "end"

\* The meaning of an infix expression, by its grammar:
\*     or-chain  ::= and-chain { or and-chain }
\*     and-chain ::= unary { and unary }
\*     unary     ::= not unary | primary
\*     primary   ::= name | ( or-chain )
\* Each level reads from position p and gives the position after what it
\* read, its value under the assignment, and the matchers consulted when
\* operands are taken left to right and an operand that cannot change the
\* value is left alone (live says whether this part is consulted at all).
Unreadable == [ok |-> FALSE, pos |-> 0, val |-> FALSE, log |-> <<>>]

RECURSIVE MeanOr(_, _, _, _), MeanOrRest(_, _, _, _), MeanAnd(_, _, _, _),
          MeanAndRest(_, _, _, _), MeanUnary(_, _, _, _), MeanPrimary(_, _, _, _)
MeanPrimary(words, p, assign, live) ==
    LET k == KindAt(words, p) IN
      IF k \in Names
        THEN [ok |-> TRUE, pos |-> p + 1, val |-> assign[k],
              log |-> (IF live THEN <<k>> ELSE <<>>)]
      ELSE IF k = "lparen"
        THEN LET r == MeanOr(words, p + 1, assign, live) IN
               IF r.ok /\ KindAt(words, r.pos) = "rparen"
                 THEN [r EXCEPT !.pos = r.pos + 1]
                 ELSE Unreadable
      ELSE Unreadable

MeanUnary(words, p, assign, live) ==
    IF KindAt(words, p) = "not"
      THEN LET r == MeanUnary(words, p + 1, assign, live) IN
             IF r.ok THEN [r EXCEPT !.val = ~r.val] ELSE Unreadable
      ELSE MeanPrimary(words, p, assign, live)

MeanAndRest(words, acc, assign, live) ==
    IF KindAt(words, acc.pos) = "and"
      THEN LET r == MeanUnary(words, acc.pos + 1, assign, live /\ acc.val) IN
             IF r.ok
               THEN MeanAndRest(words,
                                [ok |-> TRUE, pos |-> r.pos, val |-> acc.val /\ r.val,
                                 log |-> acc.log \o r.log],
                                assign, live)
               ELSE Unreadable
      ELSE acc

MeanAnd(words, p, assign, live) ==
    LET l == MeanUnary(words, p, assign, live) IN
      IF l.ok THEN MeanAndRest(words, l, assign, live) ELSE Unreadable

MeanOrRest(words, acc, assign, live) ==
    IF KindAt(words, acc.pos) = "or"
      THEN LET r == MeanAnd(words, acc.pos + 1, assign, live /\ ~acc.val) IN
             IF r.ok
               THEN MeanOrRest(words,
                               [ok |-> TRUE, pos |-> r.pos, val |-> acc.val \/ r.val,
                                log |-> acc.log \o r.log],
                               assign, live)
               ELSE Unreadable
      ELSE acc

MeanOr(words, p, assign, live) ==
    LET l == MeanAnd(words, p, assign, live) IN
      IF l.ok THEN MeanOrRest(words, l, assign, live) ELSE Unreadable

Meaning(words, assign) ==
    LET r == MeanOr(words, 1, assign, TRUE) IN
      IF r.ok /\ r.pos = Len(words) + 1 THEN r ELSE Unreadable

WellFormed(words) == Meaning(words, [n \in Names |-> FALSE]).ok

\* C18: for every well-formed expression and every assignment, the matcher
\* is built and Match returns the value of the boolean function the
\* expression denotes (not over and over or, left-associative, parentheses
\* overriding, keywords in any letter case).
C18_ComputesDenotedFunction ==
    WellFormed(xwords) =>
       /\ xpc # "failed"
       /\ xpc = "matched" => xval = Meaning(xwords, xassign).val

C18_Witness ==
    /\ xpc = "matched"
    /\ WellFormed(xwords)
    /\ xwords = <<"(", "b", "oR", "a", ")", "And", "a">>
    /\ xassign["b"] /\ ~xassign["a"]
    /\ ~xval

\* C19: evaluation is short-circuit and left to right: the matchers Match
\* calls are, in order, those of the operands taken left to right, the right
\* operand of an and being left out when the left one is false and that of
\* an or when the left one is true.
C19_ShortCircuitLeftToRight ==
    (xpc = "matched" /\ WellFormed(xwords)) =>
       xlog = Meaning(xwords, xassign).log

C19_Witness ==
    /\ xpc = "matched"
    /\ xwords = <<"a", "&&", "b", "||", "b">>
    /\ ~xassign["a"] /\ xassign["b"]
    /\ xlog = <<"a", "b">>

\* C20: BuildExpressionMatcher returns an error for every token sequence
\* that is not a well-formed infix expression.
C20_IllFormedIsRejected ==
    xpc \in {"built", "matched"} => WellFormed(xwords)

\* The names the expression mentions.
Mentioned(words) == {words[i] : i \in 1..Len(words)} \cap Names

\* C21: BuildExpressionMatcher fails whenever the expression mentions a name
\* that is absent from the registry, so a built expression never evaluates an
\* unregistered name.
C21_UnknownNameFailsAtBuild ==
    /\ (xpc \notin {"new", "idle"} /\ ~(Mentioned(xwords) \subseteq xreg)) =>
          (xpc = "failed" /\ xerr # "")
    /\ xpc = "matched" => \A i \in 1..Len(xlog) : xlog[i] \in xreg

C21_Witness ==
    /\ xpc = "failed"
    /\ xwords = <<"a", "&&", "b">>
    /\ xreg = {"a"}
    /\ xerr = "matcher not found"

-----------------------------------------------------------------------------
(* Start-up: buildMatcherMap and buildRuleEngine, src/unnamed/part_001 *)

\* The names and types a configured matcher can have, and the fields a rule's
\* match expression is made of.
MatcherNames == {"any", "m"}
MatcherTypes == {"any", "qtype"}
MatcherConfig == [name : MatcherNames, type : MatcherTypes]
RuleWords == MatcherNames \cup {"&&", "||", "!"}

BuildInit ==
    /\ mcfg \in SeqsUpTo(MatcherConfig, MaxMatchers)
    /\ rmatch \in SeqsUpTo(RuleWords, MaxRuleTokens)
    /\ mtypes = {}
    /\ bpc = "start"

\* buildMatcherMap's loop "rs[m.Name] = inst": a later entry of the same name
\* replaces the earlier one.
RECURSIVE MapOf(_)
MapOf(ms) ==
    IF ms = <<>> THEN {}
    ELSE LET last == ms[Len(ms)]
             rest == MapOf(SubSeq(ms, 1, Len(ms) - 1))
         IN {e \in rest : e.name # last.name} \cup {last}

MapNames(rs) == {e.name : e \in rs}

\* buildMatcherMap, after the loop: whether the default any matcher is put in.
InjectsAny(rs) == "any" \notin MapNames(rs)

BuildMatcherMap ==
    /\ bpc = "start"
    /\ LET rs == MapOf(mcfg) IN
         mtypes' = IF InjectsAny(rs)
                     THEN {e \in rs : e.name # "any"} \cup {[name |-> "any", type |-> "any"]}
                     ELSE rs
    /\ bpc' = "mapped"
    /\ UNCHANGED <<mcfg, rmatch>>
    /\ UNCHANGED <<engineVars, groupVars, cacheVars, persistVars, reconfVars, exprVars,
                   keyVars, sizeVars, serverVars, ahoVars, domainVars, hostVars,
                   geoVars, decodeVars, loaderVars, flagVars>>

\* buildRuleEngine's loop body for the rule: an expression that is empty
\* after strings.TrimSpace becomes "any", then BuildExpressionMatcher.
DefaultedExpr(fields) == IF fields = <<>> THEN <<"any">> ELSE fields

BuildRule ==
    /\ bpc = "mapped"
    /\ LET expr == DefaultedExpr(rmatch)
           r == BuildExpressionMatcher(expr, MapNames(mtypes))
       IN /\ xwords' = expr
          /\ xreg' = MapNames(mtypes)
          /\ xroot' = r.root
          /\ xerr' = r.err
          /\ xpc' = (IF r.err = "" THEN "built" ELSE "failed")
          /\ bpc' = (IF r.err = "" THEN "built" ELSE "failed")
    /\ UNCHANGED <<xassign, xlog, xval, mcfg, mtypes, rmatch>>
    /\ UNCHANGED <<engineVars, groupVars, cacheVars, persistVars, reconfVars, keyVars,
                   sizeVars, serverVars, ahoVars, domainVars, hostVars, geoVars,
                   decodeVars, loaderVars, flagVars>>

\* What the matchers of the map can answer for a request: one of type any
\* answers true (anyMatcher.Match), another type either way.
Answers(rs) ==
    {a \in [MapNames(rs) -> BOOLEAN] :
       \A e \in rs : e.type = "any" => a[e.name]}

\* defaultRule.Match for a request: the compiled expression's Match.
RuleMatch ==
    /\ bpc = "built"
    /\ \E assign \in Answers(mtypes) :
         LET r == eval(xroot, assign) IN
           /\ xassign' = assign
           /\ xlog' = r.log
           /\ xval' = r.ok
    /\ xpc' = "matched"
    /\ bpc' = "matched"
    /\ UNCHANGED <<xwords, xreg, xroot, xerr, mcfg, mtypes, rmatch>>
    /\ UNCHANGED <<engineVars, groupVars, cacheVars, persistVars, reconfVars, keyVars,
                   sizeVars, serverVars, ahoVars, domainVars, hostVars, geoVars,
                   decodeVars, loaderVars, flagVars>>

NextBuild == BuildMatcherMap \/ BuildRule \/ RuleMatch

InitBuild ==
    BuildInit /\ ExprIdle /\ EngineIdle /\ GroupIdle /\ CacheIdle /\ PersistIdle /\ ReconfIdle /\ KeyIdle
    /\ SizeIdle /\ ServerIdle /\ AhoIdle /\ DomainIdle /\ HostIdle /\ GeoIdle
    /\ DecodeIdle /\ LoaderIdle /\ FlagIdle

SpecBuild == InitBuild /\ [][NextBuild]_vars

\* C22: a rule whose match expression is empty matches every request: it is
\* compiled as the matcher named any, which is always in the registry and is
\* a tautology.
C22_EmptyExpressionMatchesAll ==
    /\ bpc \notin {"idle", "start"} =>
          [name |-> "any", type |-> "any"] \in mtypes
    /\ (rmatch = <<>> /\ bpc \notin {"idle", "start", "mapped"}) =>
          /\ bpc # "failed"
          /\ xwords = <<"any">>
          /\ bpc = "matched" => xval

-----------------------------------------------------------------------------
(* Cache keys: cacheManager.buildCacheKey (resolver/cache.go) and cacheKey  *)
(* (server/server.go)                                                      *)

\* A question name is a string of these characters; qtype and qclass are
\* written by %d as their digits.
NameChars == {"a", "A", ".", "|", ":"}
QNames == SeqsUpTo(NameChars, MaxNameLen)
QTypes == {"1", "28"}
QClasses == {"1", "3"}
Questions == [name : QNames, qtype : QTypes, qclass : QClasses]

KeyInit ==
    /\ kimpl \in {"manager", "server"}
    /\ kreq \in [1..2 -> Questions]
    /\ kkey = <<>>
    /\ kpc = "new"

\* strings.TrimSuffix(name, "."): one trailing dot is removed.
TrimSuffixDot(name) ==
    IF name # <<>> /\ name[Len(name)] = "."
      THEN SubSeq(name, 1, Len(name) - 1) ELSE name

\* strings.ToLower.
LowerChar(c) == IF c = "A" THEN "a" ELSE c
ToLowerName(name) == [i \in 1..Len(name) |-> LowerChar(name[i])]

\* cacheManager.buildCacheKey: "" for an empty domain, else
\* fmt.Sprintf("%s|%d|%d", domain, q.Qtype, q.Qclass).
buildCacheKey(question) ==
    LET domain == ToLowerName(TrimSuffixDot(question.name)) IN
      IF domain = <<>> THEN <<>>
      ELSE domain \o <<"|", question.qtype, "|", question.qclass>>

\* server.go cacheKey: fmt.Sprintf("%s:%d:%d", name, Qtype, Qclass).
cacheKey(question) ==
    ToLowerName(TrimSuffixDot(question.name)) \o
       <<":", question.qtype, ":", question.qclass>>

KeyOf(impl, question) ==
    IF impl = "manager" THEN buildCacheKey(question) ELSE cacheKey(question)

\* The key function is applied to the two requests.
BuildKeys ==
    /\ kpc = "new"
    /\ kkey' = [i \in 1..2 |-> KeyOf(kimpl, kreq[i])]
    /\ kpc' = "keyed"
    /\ UNCHANGED <<kimpl, kreq>>
    /\ UNCHANGED <<engineVars, groupVars, cacheVars, persistVars, reconfVars, exprVars,
                   buildVars, sizeVars, serverVars, ahoVars, domainVars, hostVars,
                   geoVars, decodeVars, loaderVars, flagVars>>

NextKey == BuildKeys

InitKey ==
    /\ KeyInit /\ EngineIdle /\ GroupIdle /\ CacheIdle /\ PersistIdle /\ ReconfIdle
    /\ ExprIdle /\ BuildIdle /\ SizeIdle /\ ServerIdle /\ AhoIdle /\ DomainIdle
    /\ HostIdle /\ GeoIdle /\ DecodeIdle /\ LoaderIdle /\ FlagIdle

SpecKey == InitKey /\ [][NextKey]_vars

\* A name with its trailing dot removed and its letters in lower case.
Canonical(name) ==
    LET n == IF name # <<>> /\ name[Len(name)] = "." THEN Len(name) - 1 ELSE Len(name)
    IN [i \in 1..n |-> IF name[i] = "A" THEN "a" ELSE name[i]]

SameQuestion(x, y) ==
    /\ x.qtype = y.qtype
    /\ x.qclass = y.qclass
    /\ Canonical(x.name) = Canonical(y.name)

\* C25: two requests map to the same cache key if and only if their first
\* questions have the same qtype, the same qclass and names that are equal
\* after lowercasing and removing the trailing dot.
C25_SameKeyIffSameQuestion ==
    kpc = "keyed" => (kkey[1] = kkey[2] <=> SameQuestion(kreq[1], kreq[2]))

-----------------------------------------------------------------------------
(* Cache size: ConfigureCache and newCacheManager, resolver/cache.go *)

DefaultSize == 1000

SizeInit ==
    /\ zopt \in -1..MaxSize
    /\ zpc = "new"
    /\ zsize = 0
    /\ zlru = <<>>
    /\ zlog = <<>>

\* ConfigureCache: "if opt.Size < 0 { opt.Size = 1000 }".
FixedUpSize(size) == IF size < 0 THEN DefaultSize ELSE size

\* lru.New (hashicorp/golang-lru/v2, simplelru.NewLRU): "must provide a
\* positive size" unless size > 0.
LruNewFails(size) == size <= 0

\* ConfigureCache with opt.Size: newCacheManager panics when lru.New fails,
\* else the manager is stored.
ConfigureSize ==
    /\ zpc = "new"
    /\ LET size == FixedUpSize(zopt) IN
         IF LruNewFails(size)
           THEN /\ zpc' = "panicked"
                /\ zsize' = zsize
           ELSE /\ zpc' = "configured"
                /\ zsize' = size
    /\ UNCHANGED <<zopt, zlru, zlog>>
    /\ UNCHANGED <<engineVars, groupVars, cacheVars, persistVars, reconfVars, exprVars,
                   buildVars, keyVars, serverVars, ahoVars, domainVars, hostVars,
                   geoVars, decodeVars, loaderVars, flagVars>>

\* c.cache.Add(key, entry): the least recently used entry goes when the LRU
\* is full.
ZAdd(cache, key, size) ==
    LET kept == SelectSeq(cache, LAMBDA k : k # key)
        all == Append(kept, key)
    IN IF Len(all) > size THEN Tail(all) ELSE all

\* A query of the stored manager for a key whose responses are cacheable and
\* fresh: a hit is answered from the LRU, a miss goes downstream and is added.
SizeQuery(key) ==
    /\ zpc = "configured"
    /\ Len(zlog) < MaxSizeQueries
    /\ IF \E i \in 1..Len(zlru) : zlru[i] = key
         THEN /\ zlru' = Append(SelectSeq(zlru, LAMBDA k : k # key), key)
              /\ zlog' = Append(zlog, [key |-> key, downstream |-> FALSE])
         ELSE /\ zlru' = ZAdd(zlru, key, zsize)
              /\ zlog' = Append(zlog, [key |-> key, downstream |-> TRUE])
    /\ UNCHANGED <<zopt, zpc, zsize>>
    /\ UNCHANGED <<engineVars, groupVars, cacheVars, persistVars, reconfVars, exprVars,
                   buildVars, keyVars, serverVars, ahoVars, domainVars, hostVars,
                   geoVars, decodeVars, loaderVars, flagVars>>

NextSize == ConfigureSize \/ \E key \in Keys : SizeQuery(key)

InitSize ==
    /\ SizeInit /\ EngineIdle /\ GroupIdle /\ CacheIdle /\ PersistIdle /\ ReconfIdle
    /\ ExprIdle /\ BuildIdle /\ KeyIdle /\ ServerIdle /\ AhoIdle /\ DomainIdle
    /\ HostIdle /\ GeoIdle /\ DecodeIdle /\ LoaderIdle /\ FlagIdle

SpecSize == InitSize /\ [][NextSize]_vars

\* C26: with the cache size configured as 0 the cache is disabled: the
\* configuration is accepted, every query is delegated to the downstream
\* resolver and no response is stored.
C26_SizeZeroDisablesCache ==
    (zopt = 0 /\ zpc # "new") =>
       /\ zpc = "configured"
       /\ zlru = <<>>
       /\ \A i \in 1..Len(zlog) : zlog[i].downstream

-----------------------------------------------------------------------------
(* Inbound server: src/internal/server/server.go, dnsServer and Server *)

Opcodes == {"QUERY", "NOTIFY"}

\* What the rule engine (dnsServer: s.c.re.Execute; Server: the route loop
\* with its outbound query) does with a request it is given.
EngineOutcomes == {"answer", "error", "panic"}

Requests == [opcode : Opcodes, nq : 0..1]

ServerInit ==
    /\ simpl \in {"dnsServer", "Server"}
    /\ sup = TRUE
    /\ shist = <<>>

\* "req.Opcode != dns.OpcodeQuery || len(req.Question) == 0"
Invalid(req) == req.opcode # "QUERY" \/ req.nq = 0

\* dnsServer.processRequest: what Execute returned, as it is.
dnsServerProcessRequest(outcome) == outcome

\* dnsServer.handleDNS: an invalid request is logged and the handler returns;
\* an error of processRequest becomes a SERVFAIL message; the message is
\* written.  Nothing in the handler recovers a panic.
dnsServerHandleDNS(req, outcome) ==
    IF Invalid(req)
      THEN [engine |-> FALSE, reply |-> "none", end |-> "returned"]
      ELSE LET r == dnsServerProcessRequest(outcome) IN
           CASE r = "panic" -> [engine |-> TRUE, reply |-> "none", end |-> "panic"]
             [] r = "error" -> [engine |-> TRUE, reply |-> "SERVFAIL", end |-> "returned"]
             [] OTHER -> [engine |-> TRUE, reply |-> "answer", end |-> "returned"]

\* Server.processRequest: NOTIMP for an invalid request, else the route loop:
\* the message of the first route that answers, or nil.
ServerProcessRequest(req, outcome) ==
    IF Invalid(req)
      THEN [engine |-> FALSE, msg |-> "NOTIMP", panic |-> FALSE]
      ELSE CASE outcome = "panic" -> [engine |-> TRUE, msg |-> "nil", panic |-> TRUE]
             [] outcome = "error" -> [engine |-> TRUE, msg |-> "nil", panic |-> FALSE]
             [] OTHER -> [engine |-> TRUE, msg |-> "answer", panic |-> FALSE]

\* Server.handleDNS: the deferred recover logs the panic and the handler
\* ends there; otherwise a nil message becomes SERVFAIL and the message is
\* written.
ServerHandleDNS(req, outcome) ==
    LET r == ServerProcessRequest(req, outcome) IN
      IF r.panic
        THEN [engine |-> r.engine, reply |-> "none", end |-> "recovered"]
        ELSE [engine |-> r.engine,
              reply |-> IF r.msg = "nil" THEN "SERVFAIL" ELSE r.msg,
              end |-> "returned"]

\* The dns.Server of Start reads a message and runs the handler for it in a
\* goroutine of its own.
Arrive(req) ==
    /\ sup
    /\ Len(shist) < MaxRequests
    /\ shist' = Append(shist, [req |-> req, pc |-> "received", engine |-> FALSE,
                               reply |-> "none", end |-> "running"])
    /\ UNCHANGED <<simpl, sup>>
    /\ UNCHANGED <<engineVars, groupVars, cacheVars, persistVars, reconfVars, exprVars,
                   buildVars, keyVars, sizeVars, ahoVars, domainVars, hostVars,
                   geoVars, decodeVars, loaderVars, flagVars>>

Handled(i, r) ==
    [shist EXCEPT ![i] = [req |-> shist[i].req, pc |-> "handled", engine |-> r.engine,
                          reply |-> r.reply, end |-> r.end]]

\* The handler of dnsServer for request i.  A panic leaves the handler; the
\* serving goroutine of the dns library is not in this repository: either it
\* recovers and drops the request, or the process dies.
DnsServerHandle(i, outcome) ==
    /\ simpl = "dnsServer"
    /\ sup
    /\ i \in 1..Len(shist)
    /\ shist[i].pc = "received"
    /\ LET r == dnsServerHandleDNS(shist[i].req, outcome) IN
         /\ shist' = Handled(i, r)
         /\ IF r.end = "panic" THEN sup' \in BOOLEAN ELSE sup' = sup
    /\ UNCHANGED simpl
    /\ UNCHANGED <<engineVars, groupVars, cacheVars, persistVars, reconfVars, exprVars,
                   buildVars, keyVars, sizeVars, ahoVars, domainVars, hostVars,
                   geoVars, decodeVars, loaderVars, flagVars>>

\* The handler of Server for request i.
ServerHandle(i, outcome) ==
    /\ simpl = "Server"
    /\ sup
    /\ i \in 1..Len(shist)
    /\ shist[i].pc = "received"
    /\ shist' = Handled(i, ServerHandleDNS(shist[i].req, outcome))
    /\ UNCHANGED <<simpl, sup>>
    /\ UNCHANGED <<engineVars, groupVars, cacheVars, persistVars, reconfVars, exprVars,
                   buildVars, keyVars, sizeVars, ahoVars, domainVars, hostVars,
                   geoVars, decodeVars, loaderVars, flagVars>>

NextServer ==
    \/ \E req \in Requests : Arrive(req)
    \/ \E i \in 1..MaxRequests, outcome \in EngineOutcomes : DnsServerHandle(i, outcome)
    \/ \E i \in 1..MaxRequests, outcome \in EngineOutcomes : ServerHandle(i, outcome)

InitServer ==
    /\ ServerInit /\ EngineIdle /\ GroupIdle /\ CacheIdle /\ PersistIdle /\ ReconfIdle
    /\ ExprIdle /\ BuildIdle /\ KeyIdle /\ SizeIdle /\ AhoIdle /\ DomainIdle /\ HostIdle
    /\ GeoIdle /\ DecodeIdle /\ LoaderIdle /\ FlagIdle

SpecServer == InitServer /\ [][NextServer]_vars

\* C27: an inbound message whose opcode is not QUERY or whose question
\* section is empty is answered with SERVFAIL and is never passed to the rule
\* engine or forwarded.
C27_InvalidAnsweredServfail ==
    \A i \in 1..Len(shist) :
       (shist[i].pc = "handled" /\ Invalid(shist[i].req)) =>
          /\ shist[i].reply = "SERVFAIL"
          /\ ~shist[i].engine

\* C28: a panic raised while the engine processes a request is recovered for
\* that request only (the process keeps serving), and the client of that
\* request receives a SERVFAIL response.
C28_PanicRecoveredServfail ==
    \A i \in 1..Len(shist) :
       (shist[i].pc = "handled" /\ shist[i].end \in {"panic", "recovered"}) =>
          /\ sup
          /\ shist[i].reply = "SERVFAIL"

-----------------------------------------------------------------------------
(* Keyword automaton: src/internal/matcher/domain/aho.go *)

AhoChars == {"a", "b"}
AhoPatterns == SeqsUpTo(AhoChars, MaxPatternLen)
AhoTexts == SeqsUpTo(AhoChars, MaxTextLen)

\* A node is named by the path that leads to it; the root is the empty path.
Root == <<>>
\* A nil *ahoNode.
Nil == <<"nil">>

\* newAhoMatcher.
newAhoMatcher == NoAho

AhoInit ==
    /\ apc = "live"
    /\ am = newAhoMatcher
    /\ aadded = {}
    /\ atext = <<>>
    /\ ares = "none"

\* node.children[ch]
Child(m, node, ch) ==
    IF node # Nil /\ Append(node, ch) \in m.nodes THEN Append(node, ch) ELSE Nil

\* node.fail; the root's is never set.
FailOf(m, node) ==
    IF \E e \in m.fail : e.node = node
      THEN (CHOOSE e \in m.fail : e.node = node).to
      ELSE Nil

\* ahoMatcher.add: the empty pattern is ignored; the path of the pattern is
\* created, its last node becomes an output, constructed is reset.
ahoAdd(m, pattern) ==
    IF pattern = <<>> THEN m
    ELSE [nodes |-> m.nodes \cup {SubSeq(pattern, 1, k) : k \in 1..Len(pattern)},
          out |-> m.out \cup {pattern},
          fail |-> m.fail,
          patterns |-> IF pattern \in m.out THEN m.patterns ELSE m.patterns + 1,
          constructed |-> FALSE]

\* build, inner loop: "for fail != nil && fail.children[ch] == nil".
RECURSIVE failChain(_, _, _)
failChain(m, fail, ch) ==
    IF fail # Nil /\ Child(m, fail, ch) = Nil
      THEN failChain(m, FailOf(m, fail), ch)
      ELSE fail

Children(m, node) ==
    {n \in m.nodes : Len(n) = Len(node) + 1 /\ SubSeq(n, 1, Len(node)) = node}

RECURSIVE OrderOf(_)
OrderOf(S) ==
    IF S = {} THEN <<>>
    ELSE LET x == CHOOSE y \in S : TRUE IN <<x>> \o OrderOf(S \ {x})

\* The fail link build gives to a child of node.
ChildFail(m, node, child) ==
    LET ch == child[Len(child)]
        fail == failChain(m, FailOf(m, node), ch)
    IN IF fail = Nil THEN Root ELSE Child(m, fail, ch)

\* build, the breadth-first loop over the queue: every child of the node
\* taken from the queue gets its fail link, inherits the output of that
\* link, and is queued.
RECURSIVE buildQueue(_, _)
buildQueue(m, queue) ==
    IF queue = <<>> THEN m
    ELSE LET node == Head(queue)
             kids == Children(m, node)
             linked == [m EXCEPT
                 !.fail = {e \in m.fail : e.node \notin kids}
                          \cup {[node |-> k, to |-> ChildFail(m, node, k)] : k \in kids},
                 !.out = m.out \cup {k \in kids : ChildFail(m, node, k) \in m.out}]
         IN buildQueue(linked, Tail(queue) \o OrderOf(kids))

\* ahoMatcher.build.
ahoBuild(m) ==
    IF m.constructed \/ m.patterns = 0
      THEN [m EXCEPT !.constructed = TRUE]
      ELSE LET first == Children(m, Root)
               started == [m EXCEPT
                   !.fail = {e \in m.fail : e.node \notin first}
                            \cup {[node |-> k, to |-> Root] : k \in first}]
           IN [buildQueue(started, OrderOf(first)) EXCEPT !.constructed = TRUE]

\* A match that starts again at the root instead of following fail links.
fallBackToRoot(m, node, ch) ==
    IF node # Nil /\ node # Root /\ Child(m, node, ch) = Nil THEN Root ELSE node

\* match, inner loop: "for node != a.root && node.children[ch] == nil".
RECURSIVE fallBack(_, _, _)
fallBack(m, node, ch) ==
    IF node # Nil /\ node # Root /\ Child(m, node, ch) = Nil
      THEN fallBack(m, FailOf(m, node), ch)
      ELSE node

\* match, the loop over the bytes of the text.
RECURSIVE scan(_, _, _, _)
scan(m, node, text, i) ==
    IF i > Len(text) THEN FALSE
    ELSE LET back == fallBack(m, node, text[i])
             next == IF Child(m, back, text[i]) # Nil
                       THEN Child(m, back, text[i]) ELSE Root
         IN IF next \in m.out THEN TRUE ELSE scan(m, next, text, i + 1)

\* The matcher as match leaves it: built when it was not.
ahoMatched(m) ==
    IF m.patterns = 0 \/ m.constructed THEN m ELSE ahoBuild(m)

\* ahoMatcher.match.
ahoMatch(m, text) ==
    IF m.patterns = 0 THEN FALSE ELSE scan(ahoMatched(m), Root, text, 1)

AhoAdd(pattern) ==
    /\ apc = "live"
    /\ Cardinality(aadded) < MaxAdds
    /\ am' = ahoAdd(am, pattern)
    /\ aadded' = aadded \cup {pattern}
    /\ UNCHANGED <<apc, atext, ares>>
    /\ UNCHANGED <<engineVars, groupVars, cacheVars, persistVars, reconfVars, exprVars,
                   buildVars, keyVars, sizeVars, serverVars, domainVars, hostVars,
                   geoVars, decodeVars, loaderVars, flagVars>>

AhoBuild ==
    /\ apc = "live"
    /\ am' = ahoBuild(am)
    /\ UNCHANGED <<apc, aadded, atext, ares>>
    /\ UNCHANGED <<engineVars, groupVars, cacheVars, persistVars, reconfVars, exprVars,
                   buildVars, keyVars, sizeVars, serverVars, domainVars, hostVars,
                   geoVars, decodeVars, loaderVars, flagVars>>

AhoMatch(text) ==
    /\ apc = "live"
    /\ atext' = text
    /\ ares' = IF ahoMatch(am, text) THEN "true" ELSE "false"
    /\ am' = ahoMatched(am)
    /\ UNCHANGED <<apc, aadded>>
    /\ UNCHANGED <<engineVars, groupVars, cacheVars, persistVars, reconfVars, exprVars,
                   buildVars, keyVars, sizeVars, serverVars, domainVars, hostVars,
                   geoVars, decodeVars, loaderVars, flagVars>>

NextAho ==
    \/ \E pattern \in AhoPatterns : AhoAdd(pattern)
    \/ AhoBuild
    \/ \E text \in AhoTexts : AhoMatch(text)

InitAho ==
    /\ AhoInit /\ EngineIdle /\ GroupIdle /\ CacheIdle /\ PersistIdle /\ ReconfIdle
    /\ ExprIdle /\ BuildIdle /\ KeyIdle /\ SizeIdle /\ ServerIdle /\ DomainIdle
    /\ HostIdle /\ GeoIdle /\ DecodeIdle /\ LoaderIdle /\ FlagIdle

SpecAho == InitAho /\ [][NextAho]_vars

\* pattern occurs in text as a contiguous substring.
Occurs(pattern, text) ==
    \E i \in 1..(Len(text) + 1) :
       /\ i + Len(pattern) - 1 <= Len(text)
       /\ SubSeq(text, i, i + Len(pattern) - 1) = pattern

\* C30: match(text) returns true if and only if at least one added
\* non-empty pattern occurs as a contiguous substring of text, patterns that
\* overlap or are reached only through fail links included; an automaton
\* with no patterns matches nothing.
C30_MatchIffSomePatternOccurs ==
    [][\A text \in AhoTexts : AhoMatch(text) =>
          (ares' = "true" <=>
             \E pattern \in aadded : pattern # <<>> /\ Occurs(pattern, text))]_vars

\* A match found only through a fail link: "ab" in "bab" after "baa" led the
\* automaton two nodes deep.
C30_Witness ==
    /\ aadded = {<<"b", "a", "a">>, <<"a", "b">>}
    /\ atext = <<"b", "a", "b">>
    /\ ares = "true"

-----------------------------------------------------------------------------
(* Domain matcher: src/internal/matcher/domain/domain.go (the version with *)
(* tries and the keyword automaton) and the trie of src/unnamed/part_016   *)

DomainChars == {"a", "b", "A", "."}
PlainChars == {"a", "."}

\* What may stand before the colon of a rule string.
KindWords == {"suffix", "full", "keyword", "regexp", "Full", "geo"}

RuleValues == SeqsUpTo(DomainChars, MaxValueLen) \cup SeqsUpTo(PlainChars, MaxPlainValueLen)

RulesOver(values) == values \cup {<<k, ":">> \o v : k \in KindWords, v \in values}

DomainRules == RulesOver(RuleValues)
PairRules == RulesOver(SeqsUpTo(DomainChars, MaxPairValueLen))

RuleLists ==
    {<<>>} \cup {<<r>> : r \in DomainRules} \cup {<<r1, r2>> : r1 \in PairRules, r2 \in PairRules}

DomainNames == SeqsUpTo(DomainChars, MaxQNameLen) \cup SeqsUpTo(PlainChars, MaxPlainQNameLen)

DomainInit ==
    /\ dpc = "new"
    /\ drules \in RuleLists
    /\ dname = <<>>
    /\ dm = NoDomainMatcher
    /\ dres = "none"

\* strings.IndexByte(in, ':'), counted from 1; 0 when there is none.
IndexColon(in) ==
    IF \E i \in 1..Len(in) : in[i] = ":"
      THEN CHOOSE i \in 1..Len(in) : in[i] = ":" /\ \A j \in 1..(i - 1) : in[j] # ":"
      ELSE 0

\* strings.ToLower on a kind word or a character.
LowerAtom(c) == IF c = "Full" THEN "full" ELSE LowerChar(c)

\* domainMatcher.extractKindData (no character here is white space).
extractKindData(in) ==
    LET idx == IndexColon(in) IN
      IF idx > 0
        THEN [kind |-> [i \in 1..(idx - 1) |-> LowerAtom(in[i])],
              data |-> SubSeq(in, idx + 1, Len(in))]
        ELSE [kind |-> <<"suffix">>, data |-> in]

\* matcher.NormalizeDomain: the trailing dot is stripped, the name lowercased.
NormalizeDomain(name) == ToLowerName(TrimSuffixDot(name))

\* strings.Split(domain, ".")
RECURSIVE Split(_)
Split(domain) ==
    IF \E i \in 1..Len(domain) : domain[i] = "."
      THEN LET i == CHOOSE k \in 1..Len(domain) :
                       domain[k] = "." /\ \A j \in 1..(k - 1) : domain[j] # "."
           IN <<SubSeq(domain, 1, i - 1)>> \o Split(SubSeq(domain, i + 1, Len(domain)))
      ELSE <<domain>>

Reverse(labels) == [i \in 1..Len(labels) |-> labels[Len(labels) + 1 - i]]

\* A trie is the set of its terminal paths, each the labels from the last
\* one inwards; its nodes are the prefixes of these paths.
HasNode(trie, path) ==
    \E t \in trie : Len(t) >= Len(path) /\ SubSeq(t, 1, Len(path)) = path

\* suffixNode.add: the empty domain is ignored.
trieAdd(trie, domain) ==
    IF domain = <<>> THEN trie ELSE trie \cup {Reverse(Split(domain))}

\* A walk that looks at terminal only after the last label.
RECURSIVE walkSuffixToEnd(_, _, _, _)
walkSuffixToEnd(trie, labels, i, path) ==
    IF i < 1 THEN path \in trie
    ELSE LET child == Append(path, labels[i]) IN
           IF ~HasNode(trie, child) THEN FALSE
           ELSE walkSuffixToEnd(trie, labels, i - 1, child)

\* suffixNode.match, the loop from the last label: false when a label has no
\* child, true as soon as a terminal node is reached.
RECURSIVE walkSuffix(_, _, _, _)
walkSuffix(trie, labels, i, path) ==
    IF i < 1 THEN path \in trie
    ELSE LET child == Append(path, labels[i]) IN
           IF ~HasNode(trie, child) THEN FALSE
           ELSE IF child \in trie THEN TRUE
           ELSE walkSuffix(trie, labels, i - 1, child)

\* suffixNode.match
matchSuffix(trie, domain) ==
    IF domain = <<>> THEN FALSE
    ELSE walkSuffix(trie, Split(domain), Len(Split(domain)), <<>>)

\* domainTrie.matchExact: the node reached by all the labels is terminal.
matchExact(trie, domain) ==
    domain # <<>> /\ Reverse(Split(domain)) \in trie

\* regexp.MatchString for an expression of letters and dots: a letter stands
\* for itself, a dot for any character, anywhere in the string.
regexMatch(re, str) ==
    \E i \in 1..(Len(str) + 1) :
       /\ i + Len(re) - 1 <= Len(str)
       /\ \A k \in 1..Len(re) : re[k] = "." \/ re[k] = str[i + k - 1]

\* domainMatcher.init, from rule i on.
RECURSIVE initFrom(_, _, _)
initFrom(m, drs, i) ==
    IF i > Len(drs) THEN [ok |-> TRUE, m |-> m]
    ELSE IF Len(drs[i]) = 0 THEN [ok |-> FALSE, m |-> m]
    ELSE LET kd == extractKindData(drs[i])
             normalized == ToLowerName(NormalizeDomain(kd.data))
         IN IF Len(kd.data) = 0 THEN [ok |-> FALSE, m |-> m]
            ELSE CASE kd.kind = <<"suffix">> ->
                        initFrom([m EXCEPT !.suffix = trieAdd(m.suffix, normalized)], drs, i + 1)
                   [] kd.kind = <<"keyword">> ->
                        initFrom([m EXCEPT !.kw = ahoAdd(m.kw, ToLowerName(kd.data))], drs, i + 1)
                   [] kd.kind = <<"full">> ->
                        initFrom([m EXCEPT !.full = trieAdd(m.full, normalized)], drs, i + 1)
                   [] kd.kind = <<"regexp">> ->
                        initFrom([m EXCEPT !.reg = Append(m.reg, kd.data)], drs, i + 1)
                   [] OTHER -> [ok |-> FALSE, m |-> m]

\* newDomainMatcher: init, then d.kw.build().
newDomainMatcher(drs) ==
    LET r == initFrom(NoDomainMatcher, drs, 1) IN
      IF r.ok THEN [ok |-> TRUE, m |-> [r.m EXCEPT !.kw = ahoBuild(r.m.kw)]] ELSE r

\* domainMatcher.Match
domainMatch(m, qname) ==
    LET name == ToLowerName(NormalizeDomain(qname)) IN
      \/ matchExact(m.full, name)
      \/ matchSuffix(m.suffix, name)
      \/ ahoMatch(m.kw, name)
      \/ \E i \in 1..Len(m.reg) : regexMatch(m.reg[i], name)

DomainBuild ==
    /\ dpc = "new"
    /\ LET r == newDomainMatcher(drules) IN
         IF r.ok THEN dpc' = "built" /\ dm' = r.m
                 ELSE dpc' = "failed" /\ dm' = dm
    /\ UNCHANGED <<drules, dname, dres>>
    /\ UNCHANGED <<engineVars, groupVars, cacheVars, persistVars, reconfVars, exprVars,
                   buildVars, keyVars, sizeVars, serverVars, ahoVars, hostVars,
                   geoVars, decodeVars, loaderVars, flagVars>>

DomainMatch(qname) ==
    /\ dpc = "built"
    /\ dpc' = "matched"
    /\ dname' = qname
    /\ dres' = IF domainMatch(dm, qname) THEN "true" ELSE "false"
    /\ UNCHANGED <<drules, dm>>
    /\ UNCHANGED <<engineVars, groupVars, cacheVars, persistVars, reconfVars, exprVars,
                   buildVars, keyVars, sizeVars, serverVars, ahoVars, hostVars,
                   geoVars, decodeVars, loaderVars, flagVars>>

NextDomain == DomainBuild \/ \E qname \in DomainNames : DomainMatch(qname)

InitDomain ==
    /\ DomainInit /\ EngineIdle /\ GroupIdle /\ CacheIdle /\ PersistIdle /\ ReconfIdle
    /\ ExprIdle /\ BuildIdle /\ KeyIdle /\ SizeIdle /\ ServerIdle /\ AhoIdle /\ HostIdle
    /\ GeoIdle /\ DecodeIdle /\ LoaderIdle /\ FlagIdle

SpecDomain == InitDomain /\ [][NextDomain]_vars

\* The kind and the value a rule string declares: the word before the colon,
\* suffix when there is none.
DeclaredKind(rule) ==
    IF Len(rule) >= 2 /\ rule[2] = ":" THEN LowerAtom(rule[1]) ELSE "suffix"

DeclaredValue(rule) ==
    IF Len(rule) >= 2 /\ rule[2] = ":" THEN SubSeq(rule, 3, Len(rule)) ELSE rule

\* A name or value modulo letter case and trailing dot.
Folded(str) ==
    LET cut == IF Len(str) > 0 /\ str[Len(str)] = "." THEN SubSeq(str, 1, Len(str) - 1)
               ELSE str
    IN [i \in 1..Len(cut) |-> IF cut[i] = "A" THEN "a" ELSE cut[i]]

Lowered(str) == [i \in 1..Len(str) |-> IF str[i] = "A" THEN "a" ELSE str[i]]

EndsWith(str, tail) ==
    Len(tail) <= Len(str) /\ SubSeq(str, Len(str) - Len(tail) + 1, Len(str)) = tail

\* The pattern matches the query name d under its kind, as the claim words
\* it: full and suffix modulo letter case and trailing dot, keyword on the
\* lowercased d, regexp on d.
PatternMatches(kind, value, d) ==
    CASE kind = "full" -> Folded(d) = Folded(value)
      [] kind = "suffix" ->
           \/ Folded(d) = Folded(value)
           \/ EndsWith(Folded(d), <<".">> \o Folded(value))
      [] kind = "keyword" -> Occurs(Lowered(value), Lowered(d))
      [] kind = "regexp" -> regexMatch(value, d)
      [] OTHER -> FALSE

\* C29 as stated: the matcher returns true for d if and only if some
\* configured pattern matches d under its kind (full: equality modulo case
\* and trailing dot; suffix: d equals the pattern or ends with a dot and the
\* pattern; keyword: substring of lowercased d; regexp: the expression
\* matches d), a pattern without kind prefix being a suffix pattern.
C29_TrueIffSomePatternMatches ==
    dpc = "matched" =>
       (dres = "true" <=>
          \E i \in 1..Len(drules) :
             PatternMatches(DeclaredKind(drules[i]), DeclaredValue(drules[i]), dname))

\* The pattern matches the folded name n: every kind is judged on n, and a
\* full or suffix value that is empty once folded matches nothing.
PatternMatchesFolded(kind, value, n) ==
    CASE kind = "full" -> Folded(value) # <<>> /\ n = Folded(value)
      [] kind = "suffix" ->
           /\ Folded(value) # <<>>
           /\ \/ n = Folded(value)
              \/ EndsWith(n, <<".">> \o Folded(value))
      [] kind = "keyword" -> Occurs(Lowered(value), n)
      [] kind = "regexp" -> regexMatch(value, n)
      [] OTHER -> FALSE

\* C29 amended: with n the query name lowercased and without its trailing
\* dot, the matcher returns true if and only if some configured pattern
\* matches n under its kind: full means n equals the value modulo case and
\* trailing dot, suffix means n equals that value or ends with a dot followed
\* by it, in both cases for a value that is not empty once its trailing dot
\* is gone; keyword means the lowercased value is a substring of n; regexp
\* means the expression matches n; a pattern without a kind prefix is a
\* suffix pattern.
C29_TrueIffSomePatternMatchesFolded ==
    dpc = "matched" =>
       (dres = "true" <=>
          \E i \in 1..Len(drules) :
             PatternMatchesFolded(DeclaredKind(drules[i]), DeclaredValue(drules[i]),
                                  Folded(dname)))

\* A bare pattern of two labels matched as a suffix at a label boundary.
C29_Witness ==
    /\ dpc = "matched"
    /\ drules = << <<"a", ".", "a">> >>
    /\ dname = <<"a", ".", "a", ".", "a">>
    /\ dres = "true"

-----------------------------------------------------------------------------
(* Host action: src/unnamed/part_004, package host *)

defaultHostRecordTTL == 5

HostChars == {"a", "A", "."}
HostDomains == {<<"a">>, <<"a", "a">>}
HostQTypes == {"A", "AAAA", "ANY", "MX"}

\* The address lists createHostAction can leave in a record: never both empty.
HostRecordShapes ==
    {r \in [ipv4 : {<<>>, <<"1.1.1.1">>, <<"1.1.1.1", "2.2.2.2">>}, ipv6 : {<<>>, <<"::1">>}] :
       Len(r.ipv4) + Len(r.ipv6) > 0}

HostRecordSets ==
    {rs \in SUBSET {[domain |-> d, ipv4 |-> r.ipv4, ipv6 |-> r.ipv6] :
                       d \in HostDomains, r \in HostRecordShapes} :
       /\ rs # {}
       /\ \A x \in rs, y \in rs : x.domain = y.domain => x = y}

HostQuestions == [name : SeqsUpTo(HostChars, MaxHostNameLen), qtype : HostQTypes]

HostInit ==
    /\ hpc = "new"
    /\ hrecords \in HostRecordSets
    /\ hreq \in SeqsUpTo(HostQuestions, MaxHostQuestions)
    /\ hresp = NoResponse

\* normalize (no character here is white space).
normalize(domain) == ToLowerName(TrimSuffixDot(domain))

\* addIPv4Answers / addIPv6Answers: one record per address, named as the
\* question, with the default TTL.
addAnswers(answer, question, rrtype, ips) ==
    answer \o [i \in 1..Len(ips) |->
                 [name |-> question.name, rrtype |-> rrtype,
                  ttl |-> defaultHostRecordTTL, ip |-> ips[i]]]

\* Perform, the loop over req.Question from question i on.
RECURSIVE performFrom(_, _, _, _)
performFrom(records, questions, i, answer) ==
    IF i > Len(questions) THEN answer
    ELSE LET question == questions[i]
             domain == normalize(question.name)
         IN IF ~\E r \in records : r.domain = domain
              THEN performFrom(records, questions, i + 1, answer)
              ELSE LET record == CHOOSE r \in records : r.domain = domain IN
                   performFrom(records, questions, i + 1,
                     CASE question.qtype = "A" ->
                            addAnswers(answer, question, "A", record.ipv4)
                       [] question.qtype = "AAAA" ->
                            addAnswers(answer, question, "AAAA", record.ipv6)
                       [] question.qtype = "ANY" ->
                            addAnswers(addAnswers(answer, question, "A", record.ipv4),
                                       question, "AAAA", record.ipv6)
                       [] OTHER -> answer)

\* hostAction.Perform
Perform(records, questions) ==
    LET answer == performFrom(records, questions, 1, <<>>) IN
      IF Len(answer) = 0
        THEN [err |-> "no host record matched request", authoritative |-> FALSE,
              answer |-> <<>>]
        ELSE [err |-> "none", authoritative |-> TRUE, answer |-> answer]

HostPerform ==
    /\ hpc = "new"
    /\ hpc' = "done"
    /\ hresp' = Perform(hrecords, hreq)
    /\ UNCHANGED <<hrecords, hreq>>
    /\ UNCHANGED <<engineVars, groupVars, cacheVars, persistVars, reconfVars, exprVars,
                   buildVars, keyVars, sizeVars, serverVars, ahoVars, domainVars,
                   geoVars, decodeVars, loaderVars, flagVars>>

NextHost == HostPerform

InitHost ==
    /\ HostInit /\ EngineIdle /\ GroupIdle /\ CacheIdle /\ PersistIdle /\ ReconfIdle
    /\ ExprIdle /\ BuildIdle /\ KeyIdle /\ SizeIdle /\ ServerIdle /\ AhoIdle /\ DomainIdle
    /\ GeoIdle /\ DecodeIdle /\ LoaderIdle /\ FlagIdle

SpecHost == InitHost /\ [][NextHost]_vars

\* The configured domain a question names, letter case and trailing dot aside.
NamesConfigured(question) ==
    \E r \in hrecords : r.domain = Folded(question.name)

\* C31: Perform fails with the no-record error if no question names a
\* configured domain; if some question names a configured domain it returns
\* an authoritative reply whose answers are A records for TypeA, AAAA
\* records for TypeAAAA and both for TypeANY, each with TTL 5.
C31_ErrorIffNoQuestionConfigured ==
    hpc = "done" =>
       IF \E i \in 1..Len(hreq) : NamesConfigured(hreq[i])
         THEN /\ hresp.err = "none"
              /\ hresp.authoritative
              /\ \A k \in 1..Len(hresp.answer) :
                    /\ hresp.answer[k].ttl = 5
                    /\ \E i \in 1..Len(hreq) :
                          /\ NamesConfigured(hreq[i])
                          /\ hreq[i].name = hresp.answer[k].name
                          /\ hreq[i].qtype \in {hresp.answer[k].rrtype, "ANY"}
         ELSE hresp.err = "no host record matched request"

-----------------------------------------------------------------------------
(* Geosite matcher: src/internal/matcher/geosite/geosite.go *)

geoDomainTypePlain == 0
geoDomainTypeRegex == 1
geoDomainTypeDomain == 2
geoDomainTypeFull == 3

\* What the decoder can leave under an attribute key: a bool, an int, or
\* neither pointer set; "absent" when the key is not in the map.
AttrShapes == {"absent", "true", "false", "int1", "int0", "unset"}

\* The entries of the datasets: every type (4 is none of the known ones)
\* without attribute, a second value, and one entry per shape of the
\* attribute "ads".
GeoDomains ==
    {[typ |-> t, value |-> "x", ads |-> "absent"] : t \in 0..4}
    \cup {[typ |-> geoDomainTypeDomain, value |-> "y", ads |-> "absent"]}
    \cup {[typ |-> geoDomainTypeDomain, value |-> "x", ads |-> a] : a \in AttrShapes}

GeoDatasets ==
    {{[name |-> <<"cn">>, domains |-> cn]} : cn \in SeqsUpTo(GeoDomains, MaxCnDomains)}
    \cup {{[name |-> <<"cn">>, domains |-> cn], [name |-> <<"us">>, domains |-> us]} :
            cn \in SeqsUpTo(GeoDomains, MaxCnDomains),
            us \in SeqsUpTo(GeoDomains, MaxUsDomains)}

\* Raw category specs, as sequences of words and the characters @ and !.
RawSpecs ==
    {<<n>> : n \in {"cn", "CN", "us", "xx"}}
    \cup {<<n, "@", a>> : n \in {"cn", "us"}, a \in {"ads", "ADS"}}
    \cup {<<n, "@", "!", a>> : n \in {"cn", "us"}, a \in {"ads"}}
    \cup {<<"cn", "@">>, <<"@", "ads">>, <<"cn", "@", "ads", "@", "ads">>}

GeoInit ==
    /\ ypc = "new"
    /\ yentries \in GeoDatasets
    /\ ycats \in SeqsUpTo(RawSpecs, MaxCategories)
    /\ yres = NoRules

\* geoDomain.toRule
toRule(d) ==
    CASE d.typ = geoDomainTypePlain -> [rule |-> <<"keyword", ":", d.value>>, ok |-> TRUE]
      [] d.typ = geoDomainTypeRegex -> [rule |-> <<"regexp", ":", d.value>>, ok |-> TRUE]
      [] d.typ = geoDomainTypeDomain -> [rule |-> <<"suffix", ":", d.value>>, ok |-> TRUE]
      [] d.typ = geoDomainTypeFull -> [rule |-> <<"full", ":", d.value>>, ok |-> TRUE]
      [] OTHER -> [rule |-> <<>>, ok |-> FALSE]

\* A filter that forgets the negation.
matchesAttributeNoNegate(d, attr, negate) ==
    attr = <<>> \/ (attr = <<"ads">> /\ d.ads \in {"true", "int1"})

\* d.attributes[attr] for the one attribute key of the datasets.
AttrOf(d, attr) == IF attr = <<"ads">> THEN d.ads ELSE "absent"

\* geoDomain.matchesAttribute
matchesAttribute(d, attr, negate) ==
    IF attr = <<>> THEN TRUE
    ELSE LET val == AttrOf(d, attr) IN
         CASE val = "absent" -> negate
           [] val \in {"true", "false"} -> IF negate THEN val # "true" ELSE val = "true"
           [] val \in {"int1", "int0"} -> IF negate THEN val # "int1" ELSE val = "int1"
           [] OTHER -> negate

\* strings.ToLower on a word of a spec.
LowerWord(w) == CASE w = "CN" -> "cn" [] w = "ADS" -> "ads" [] OTHER -> w

IndexAt(spec) ==
    IF \E i \in 1..Len(spec) : spec[i] = "@"
      THEN CHOOSE i \in 1..Len(spec) : spec[i] = "@" /\ \A j \in 1..(i - 1) : spec[j] # "@"
      ELSE 0

\* parseListSpec: strings.SplitN(spec, "@", 2), a leading "!" of the second
\* part negates, both parts lowercased.
parseListSpec(spec) ==
    LET at == IndexAt(spec)
        name == IF at = 0 THEN spec ELSE SubSeq(spec, 1, at - 1)
        rest == IF at = 0 THEN <<>> ELSE SubSeq(spec, at + 1, Len(spec))
        negate == at # 0 /\ Len(rest) > 0 /\ rest[1] = "!"
        attr == IF negate THEN Tail(rest) ELSE rest
    IN [name |-> [i \in 1..Len(name) |-> LowerWord(name[i])],
        attr |-> [i \in 1..Len(attr) |-> LowerWord(attr[i])],
        attrNegate |-> negate]

\* A test that looks at the last rule only.
HasRuleLast(domainRules, rule) ==
    Len(domainRules) > 0 /\ domainRules[Len(domainRules)] = rule

HasRule(domainRules, rule) == \E k \in 1..Len(domainRules) : domainRules[k] = rule

\* createGeositeMatcher, the loop over the domains of one list.
RECURSIVE rulesOfList(_, _, _, _)
rulesOfList(domains, spec, j, domainRules) ==
    IF j > Len(domains) THEN domainRules
    ELSE IF ~matchesAttribute(domains[j], spec.attr, spec.attrNegate)
           THEN rulesOfList(domains, spec, j + 1, domainRules)
    ELSE LET r == toRule(domains[j]) IN
           IF r.ok /\ ~HasRule(domainRules, r.rule)
             THEN rulesOfList(domains, spec, j + 1, Append(domainRules, r.rule))
             ELSE rulesOfList(domains, spec, j + 1, domainRules)

\* createGeositeMatcher, the loop over cfg.Categories.
RECURSIVE rulesOfCategories(_, _, _, _)
rulesOfCategories(entries, cats, i, domainRules) ==
    IF i > Len(cats) THEN [err |-> "none", rules |-> domainRules]
    ELSE LET spec == parseListSpec(cats[i]) IN
           IF spec.name = <<>> THEN rulesOfCategories(entries, cats, i + 1, domainRules)
           ELSE IF ~\E e \in entries : e.name = spec.name
                  THEN [err |-> "list not found", rules |-> <<>>]
           ELSE rulesOfCategories(entries, cats, i + 1,
                  rulesOfList((CHOOSE e \in entries : e.name = spec.name).domains,
                              spec, 1, domainRules))

\* createGeositeMatcher, after the dataset was loaded.
createGeositeMatcher(entries, cats) ==
    IF Len(cats) = 0 THEN [err |-> "requires categories", rules |-> <<>>]
    ELSE LET r == rulesOfCategories(entries, cats, 1, <<>>) IN
           IF r.err = "none" /\ Len(r.rules) = 0
             THEN [err |-> "produced no domains", rules |-> <<>>]
             ELSE r

GeoCreate ==
    /\ ypc = "new"
    /\ ypc' = "done"
    /\ yres' = createGeositeMatcher(yentries, ycats)
    /\ UNCHANGED <<yentries, ycats>>
    /\ UNCHANGED <<engineVars, groupVars, cacheVars, persistVars, reconfVars, exprVars,
                   buildVars, keyVars, sizeVars, serverVars, ahoVars, domainVars, hostVars,
                   decodeVars, loaderVars, flagVars>>

NextGeo == GeoCreate

InitGeo ==
    /\ GeoInit /\ EngineIdle /\ GroupIdle /\ CacheIdle /\ PersistIdle /\ ReconfIdle
    /\ ExprIdle /\ BuildIdle /\ KeyIdle /\ SizeIdle /\ ServerIdle /\ AhoIdle /\ DomainIdle
    /\ HostIdle /\ DecodeIdle /\ LoaderIdle /\ FlagIdle

SpecGeo == InitGeo /\ [][NextGeo]_vars

\* The rule string the mapping gives an entry of one of the four types.
MappedRule(d) ==
    <<CASE d.typ = 0 -> "keyword" [] d.typ = 1 -> "regexp" [] d.typ = 2 -> "suffix"
        [] OTHER -> "full", ":", d.value>>

DomainsOf(name) ==
    IF \E e \in yentries : e.name = name
      THEN (CHOOSE e \in yentries : e.name = name).domains ELSE <<>>

\* The rules of the entries of the category of spec i that its filter
\* selects, in the order of the dataset.
SelectedRules(i) ==
    LET spec == parseListSpec(ycats[i])
        ds == DomainsOf(spec.name)
        sel == SelectSeq(ds, LAMBDA d : /\ d.typ \in 0..3
                                       /\ matchesAttribute(d, spec.attr, spec.attrNegate))
    IN [k \in 1..Len(sel) |-> MappedRule(sel[k])]

RECURSIVE AllSelectedRules(_)
AllSelectedRules(n) ==
    IF n = 0 THEN <<>> ELSE AllSelectedRules(n - 1) \o SelectedRules(n)

\* The sequence with only the first occurrence of each element kept.
RECURSIVE FirstOccurrences(_)
FirstOccurrences(seq) ==
    IF seq = <<>> THEN <<>>
    ELSE LET front == FirstOccurrences(SubSeq(seq, 1, Len(seq) - 1))
             last == seq[Len(seq)]
         IN IF \E k \in 1..Len(front) : front[k] = last THEN front ELSE Append(front, last)

\* C32: the rules of a geosite matcher are the selected entries mapped plain
\* to keyword:, regex to regexp:, domain to suffix:, full to full:, in the
\* order of the category specs and of the entries in the dataset, with only
\* the first occurrence of each rule string kept.
C32_RulesMappedInOrderFirstKept ==
    (ypc = "done" /\ yres.err = "none") =>
       yres.rules = FirstOccurrences(AllSelectedRules(Len(ycats)))

\* Two categories, the second repeating a rule of the first: it is kept once,
\* where it came first.
C32_Witness ==
    /\ ypc = "done"
    /\ ycats = << <<"cn">>, <<"us">> >>
    /\ yres.rules = << <<"suffix", ":", "x">>, <<"keyword", ":", "x">> >>
    /\ DomainsOf(<<"us">>) = << [typ |-> 2, value |-> "x", ads |-> "absent"] >>

\* The one spec of the configuration is name, name@attr or name@!attr.
PlainSpec == Len(ycats) = 1 /\ Len(ycats[1]) = 1 /\ ycats[1][1] \notin {"@", "!"}
AttrSpec ==
    /\ Len(ycats) = 1 /\ Len(ycats[1]) = 3
    /\ ycats[1][2] = "@" /\ ycats[1][1] \notin {"@", "!"} /\ ycats[1][3] \notin {"@", "!"}
NotAttrSpec ==
    /\ Len(ycats) = 1 /\ Len(ycats[1]) = 4
    /\ ycats[1][2] = "@" /\ ycats[1][3] = "!"
    /\ ycats[1][1] \notin {"@", "!"} /\ ycats[1][4] \notin {"@", "!"}

\* The rules of a one-spec configuration when exactly the entries in keep
\* are kept.
RulesOfKept(keep(_)) ==
    LET ds == DomainsOf(<<LowerWord(ycats[1][1])>>)
        sel == SelectSeq(ds, LAMBDA d : d.typ \in 0..3 /\ keep(d))
    IN FirstOccurrences([k \in 1..Len(sel) |-> MappedRule(sel[k])])

Produces(expected) ==
    IF expected = <<>> THEN yres.err # "none" ELSE yres.err = "none" /\ yres.rules = expected

\* The entry carries the attribute attr.
Carries(d, attr) == LowerWord(attr) = "ads" /\ d.ads # "absent"

\* The entry carries the attribute attr with a true or non-zero value.
CarriesSet(d, attr) == LowerWord(attr) = "ads" /\ d.ads \in {"true", "int1"}

ListFound == \E e \in yentries : e.name = <<LowerWord(ycats[1][1])>>

MaxBytes == 4

wireTypeVarint == 0
wireTypeSixtyFourBit == 1
wireTypeLengthDelimited == 2
wireTypeStartGroup == 3
wireTypeEndGroup == 4
wireTypeThirtyTwoBit == 5

Panic == "index out of range"
OutOfRange == 255 + 1

\* data[i]: the byte, or OutOfRange when i is no index of the buffer
Byte(data, i) == IF i >= 0 /\ i < Len(data) THEN data[i + 1] ELSE OutOfRange

\* data[start:end]
Slice(data, start, end) ==
    IF start >= 0 /\ start <= end /\ end <= Len(data)
    THEN [ok |-> TRUE, bytes |-> SubSeq(data, start + 1, end)]
    ELSE [ok |-> FALSE, bytes |-> <<>>]

\* uint64 values are kept exactly below ValueCap; a larger value keeps its
\* three low bits (the wire type of a tag) and is otherwise only known to be
\* at least ValueCap, which is more than any buffer length or field number
\* the decoder compares it with
ValueCap == 2 ^ 28

Sat(v) == IF v >= ValueCap THEN ValueCap + (v % 8) ELSE v

\* value |= uint64(b&0x7F) << shift
AddBits(value, part, shift) ==
    IF shift < 28 THEN Sat(value + part * (2 ^ shift))
    ELSE IF shift = 63 THEN (IF part % 2 = 1 THEN Sat(value + ValueCap) ELSE value)
    ELSE IF part # 0 THEN Sat(value + ValueCap) ELSE value

RECURSIVE varintLoop(_, _, _, _)
varintLoop(data, off, value, shift) ==
    IF off >= Len(data)
    THEN [err |-> "unexpected end of data", off |-> off, value |-> 0]
    ELSE LET b == Byte(data, off) IN
         IF b = OutOfRange THEN [err |-> Panic, off |-> off, value |-> 0]
         ELSE LET v == AddBits(value, b % 128, shift) IN
              IF b < 128 THEN [err |-> "", off |-> off + 1, value |-> v]
              ELSE IF shift + 7 >= 64
                   THEN [err |-> "varint overflow", off |-> off + 1, value |-> 0]
                   ELSE varintLoop(data, off + 1, v, shift + 7)

readVarint(data, off) == varintLoop(data, off, 0, 0)

readTag(data, off) ==
    LET v == readVarint(data, off) IN
    IF v.err # "" THEN [err |-> v.err, off |-> v.off, fieldNum |-> 0, wireType |-> 0]
    ELSE IF v.value = 0
         THEN [err |-> "invalid tag 0", off |-> v.off, fieldNum |-> 0, wireType |-> 0]
         ELSE [err |-> "", off |-> v.off, fieldNum |-> v.value \div 8,
               wireType |-> v.value % 8]

\* readBytes without the comparison of the length with what is left
readBytesUnchecked(data, off) ==
    LET l == readVarint(data, off) IN
    IF l.err # "" THEN [err |-> l.err, off |-> l.off, bytes |-> <<>>]
    ELSE LET s == Slice(data, l.off, l.off + l.value) IN
         IF ~s.ok THEN [err |-> Panic, off |-> l.off, bytes |-> <<>>]
         ELSE [err |-> "", off |-> l.off + l.value, bytes |-> s.bytes]

readBytes(data, off) ==
    LET l == readVarint(data, off) IN
    IF l.err # "" THEN [err |-> l.err, off |-> l.off, bytes |-> <<>>]
    ELSE IF l.value > Len(data) - l.off
         THEN [err |-> "invalid length", off |-> l.off, bytes |-> <<>>]
         ELSE LET s == Slice(data, l.off, l.off + l.value) IN
              IF ~s.ok THEN [err |-> Panic, off |-> l.off, bytes |-> <<>>]
              ELSE [err |-> "", off |-> l.off + l.value, bytes |-> s.bytes]

skipBytes(data, off, n) ==
    IF off + n > Len(data) THEN [err |-> "unexpected end of data", off |-> off]
    ELSE [err |-> "", off |-> off + n]

RECURSIVE skipField(_, _, _)
skipField(data, off, wireType) ==
    CASE wireType = wireTypeVarint ->
           LET v == readVarint(data, off) IN [err |-> v.err, off |-> v.off]
      [] wireType = wireTypeSixtyFourBit -> skipBytes(data, off, 8)
      [] wireType = wireTypeLengthDelimited ->
           LET b == readBytes(data, off) IN [err |-> b.err, off |-> b.off]
      [] wireType = wireTypeStartGroup ->
           LET t == readTag(data, off) IN
           IF t.err # "" THEN [err |-> t.err, off |-> t.off]
           ELSE IF t.wireType = wireTypeEndGroup THEN [err |-> "", off |-> t.off]
           ELSE LET k == skipField(data, t.off, t.wireType) IN
                IF k.err # "" THEN k
                ELSE skipField(data, k.off, wireTypeStartGroup)
      [] wireType = wireTypeEndGroup -> [err |-> "", off |-> off]
      [] wireType = wireTypeThirtyTwoBit -> skipBytes(data, off, 4)
      [] OTHER -> [err |-> "unsupported wire type", off |-> off]

\* strings.ToLower and strings.TrimSpace on ASCII text
lowerByte(b) == IF b >= 65 /\ b <= 90 THEN b + 32 ELSE b

lowerBytes(str) == [i \in 1..Len(str) |-> lowerByte(str[i])]

isSpace(b) == b \in {9, 10, 11, 12, 13, 32}

RECURSIVE trimBytes(_)
trimBytes(str) ==
    IF str = <<>> THEN <<>>
    ELSE IF isSpace(Head(str)) THEN trimBytes(Tail(str))
    ELSE IF isSpace(str[Len(str)]) THEN trimBytes(SubSeq(str, 1, Len(str) - 1))
    ELSE str

NoAttribute == [hasBool |-> FALSE, boolValue |-> FALSE, hasInt |-> FALSE, intValue |-> 0]

RECURSIVE attrLoop(_, _, _, _)
attrLoop(data, off, key, attr) ==
    IF off >= Len(data) THEN [err |-> "", attr |-> attr, key |-> key]
    ELSE LET t == readTag(data, off)
             fail(e) == [err |-> e, attr |-> NoAttribute, key |-> <<>>]
         IN
         IF t.err # "" THEN fail(t.err)
         ELSE CASE t.fieldNum = 1 ->
                     IF t.wireType # wireTypeLengthDelimited
                     THEN fail("unexpected wire type for Attribute.key")
                     ELSE LET b == readBytes(data, t.off) IN
                          IF b.err # "" THEN fail(b.err)
                          ELSE attrLoop(data, b.off, lowerBytes(trimBytes(b.bytes)), attr)
                [] t.fieldNum = 2 ->
                     IF t.wireType # wireTypeVarint
                     THEN fail("unexpected wire type for Attribute.bool_value")
                     ELSE LET v == readVarint(data, t.off) IN
                          IF v.err # "" THEN fail(v.err)
                          ELSE attrLoop(data, v.off, key,
                                        [attr EXCEPT !.hasBool = TRUE,
                                                     !.boolValue = (v.value # 0)])
                [] t.fieldNum = 3 ->
                     IF t.wireType # wireTypeVarint
                     THEN fail("unexpected wire type for Attribute.int_value")
                     ELSE LET v == readVarint(data, t.off) IN
                          IF v.err # "" THEN fail(v.err)
                          ELSE attrLoop(data, v.off, key,
                                        [attr EXCEPT !.hasInt = TRUE,
                                                     !.intValue = v.value])
                [] OTHER ->
                     LET k == skipField(data, t.off, t.wireType) IN
                     IF k.err # "" THEN fail(k.err)
                     ELSE attrLoop(data, k.off, key, attr)

parseDomainAttribute(data) == attrLoop(data, 0, <<>>, NoAttribute)

\* a Domain: Type, Value and the Attributes map as the set of its (key, attr) pairs
NoDomain == [Type |-> 0, Value |-> <<>>, Attributes |-> {}]

\* result.Attributes[key] = attr
PutAttribute(attrs, key, attr) ==
    {a \in attrs : a.key # key} \cup {[key |-> key, attr |-> attr]}

RECURSIVE domainLoop(_, _, _)

\* the rest of case 3 of parseGeoDomain, once parseDomainAttribute returned a
domainAttribute(data, off, d, a) ==
    IF a.err # "" THEN [err |-> a.err, domain |-> NoDomain]
    ELSE domainLoop(data, off,
           IF a.key # <<>>
           THEN [d EXCEPT !.Attributes = PutAttribute(@, a.key, a.attr)]
           ELSE d)

domainLoop(data, off, d) ==
    IF off >= Len(data)
    THEN IF d.Value = <<>> THEN [err |-> "empty domain value", domain |-> NoDomain]
         ELSE [err |-> "", domain |-> d]
    ELSE LET t == readTag(data, off)
             fail(e) == [err |-> e, domain |-> NoDomain]
         IN
         IF t.err # "" THEN fail(t.err)
         ELSE CASE t.fieldNum = 1 ->
                     IF t.wireType # wireTypeVarint
                     THEN fail("unexpected wire type for Domain.type")
                     ELSE LET v == readVarint(data, t.off) IN
                          IF v.err # "" THEN fail(v.err)
                          ELSE domainLoop(data, v.off, [d EXCEPT !.Type = v.value])
                [] t.fieldNum = 2 ->
                     IF t.wireType # wireTypeLengthDelimited
                     THEN fail("unexpected wire type for Domain.value")
                     ELSE LET b == readBytes(data, t.off) IN
                          IF b.err # "" THEN fail(b.err)
                          ELSE domainLoop(data, b.off,
                                 [d EXCEPT !.Value =
                                     IF d.Type = geoDomainTypeRegex
                                     THEN trimBytes(b.bytes)
                                     ELSE lowerBytes(trimBytes(b.bytes))])
                [] t.fieldNum = 3 ->
                     IF t.wireType # wireTypeLengthDelimited
                     THEN fail("unexpected wire type for Domain.attribute")
                     ELSE LET b == readBytes(data, t.off) IN
                          IF b.err # "" THEN fail(b.err)
                          ELSE domainAttribute(data, b.off, d,
                                               parseDomainAttribute(b.bytes))
                [] OTHER ->
                     LET k == skipField(data, t.off, t.wireType) IN
                     IF k.err # "" THEN fail(k.err)
                     ELSE domainLoop(data, k.off, d)

parseGeoDomain(data) == domainLoop(data, 0, NoDomain)

\* a filter is nil or a set of names
NilFilter == [isNil |-> TRUE, names |-> {}]
FilterOf(names) == [isNil |-> FALSE, names |-> names]

RECURSIVE siteLoop(_, _, _, _, _, _)

\* the rest of case 2 of parseGeoSiteFiltered, once parseGeoDomain returned g
siteDomain(data, off, name, include, domains, filter, g) ==
    IF g.err # ""
    THEN [err |-> g.err, name |-> <<>>, domains |-> <<>>, include |-> FALSE]
    ELSE siteLoop(data, off, name, include, Append(domains, g.domain), filter)

siteLoop(data, off, name, include, domains, filter) ==
    IF off >= Len(data)
    THEN IF name = <<>> \/ ~include
         THEN [err |-> "", name |-> name, domains |-> <<>>, include |-> FALSE]
         ELSE [err |-> "", name |-> name, domains |-> domains, include |-> TRUE]
    ELSE LET t == readTag(data, off)
             fail(e) == [err |-> e, name |-> <<>>, domains |-> <<>>, include |-> FALSE]
         IN
         IF t.err # "" THEN fail(t.err)
         ELSE CASE t.fieldNum = 1 ->
                     IF t.wireType # wireTypeLengthDelimited
                     THEN fail("unexpected wire type for GeoSite.country_code")
                     ELSE LET b == readBytes(data, t.off) IN
                          IF b.err # "" THEN fail(b.err)
                          ELSE LET n == lowerBytes(trimBytes(b.bytes)) IN
                               siteLoop(data, b.off, n,
                                        include \/ (~filter.isNil /\ n \in filter.names),
                                        domains, filter)
                [] t.fieldNum = 2 ->
                     IF t.wireType # wireTypeLengthDelimited
                     THEN fail("unexpected wire type for GeoSite.domain")
                     ELSE LET b == readBytes(data, t.off) IN
                          IF b.err # "" THEN fail(b.err)
                          ELSE IF ~include
                               THEN siteLoop(data, b.off, name, include, domains, filter)
                               ELSE siteDomain(data, b.off, name, include, domains,
                                               filter, parseGeoDomain(b.bytes))
                [] OTHER ->
                     LET k == skipField(data, t.off, t.wireType) IN
                     IF k.err # "" THEN fail(k.err)
                     ELSE siteLoop(data, k.off, name, include, domains, filter)

parseGeoSiteFiltered(data, filter) == siteLoop(data, 0, <<>>, filter.isNil, <<>>, filter)

\* a dataset (map from name to domains) as the set of its [name, domains] pairs
HasName(result, name) == \E e \in result : e.name = name

DomainsUnder(result, name) ==
    IF HasName(result, name) THEN (CHOOSE e \in result : e.name = name).domains ELSE <<>>

\* result[name] = append(result[name], domains...)
AppendUnder(result, name, domains) ==
    {e \in result : e.name # name}
        \cup {[name |-> name, domains |-> DomainsUnder(result, name) \o domains]}

RECURSIVE listLoop(_, _, _, _, _)

\* the rest of the entry case of parseGeoSiteList, once parseGeoSiteFiltered
\* returned e
listEntry(data, off, found, result, filter, e) ==
    LET expected == Cardinality(filter.names)
        enough(f) == ~filter.isNil /\ expected > 0 /\ f >= expected
    IN
    IF e.err # "" THEN [err |-> e.err, result |-> {}]
    ELSE IF ~e.include \/ e.name = <<>>
    THEN IF enough(found) THEN [err |-> "", result |-> result]
         ELSE listLoop(data, off, found, result, filter)
    ELSE LET f2 == IF HasName(result, e.name) THEN found ELSE found + 1
             r2 == AppendUnder(result, e.name, e.domains)
         IN IF enough(f2) THEN [err |-> "", result |-> r2]
            ELSE listLoop(data, off, f2, r2, filter)

listLoop(data, off, found, result, filter) ==
    IF off >= Len(data) THEN [err |-> "", result |-> result]
    ELSE LET t == readTag(data, off) IN
         IF t.err # "" THEN [err |-> t.err, result |-> {}]
         ELSE IF t.fieldNum = 1 /\ t.wireType = wireTypeLengthDelimited
         THEN LET m == readBytes(data, t.off) IN
              IF m.err # "" THEN [err |-> m.err, result |-> {}]
              ELSE listEntry(data, m.off, found, result, filter,
                             parseGeoSiteFiltered(m.bytes, filter))
         ELSE LET k == skipField(data, t.off, t.wireType) IN
              IF k.err # "" THEN [err |-> k.err, result |-> {}]
              ELSE listLoop(data, k.off, found, result, filter)

parseGeoSiteList(data, filter) == listLoop(data, 0, 0, {}, filter)

(***************************************************************************)
(* Encoding, to build well-formed inputs: a length-delimited field, a      *)
(* varint field, a Domain message and a GeoSite record.                    *)
(***************************************************************************)
LD(fieldNum, bytes) == <<fieldNum * 8 + wireTypeLengthDelimited, Len(bytes)>> \o bytes
VI(fieldNum, value) == <<fieldNum * 8 + wireTypeVarint, value>>

RECURSIVE Concat(_)
Concat(seqs) == IF seqs = <<>> THEN <<>> ELSE Head(seqs) \o Concat(Tail(seqs))

\* the texts "c", "x", "a" and " C "
TextC == <<99>>
TextX == <<120>>
TextA == <<97>>
TextSpacedC == <<32, 67, 32>>

\* Domain{Type: domain, Value: "x", Attributes: {"a": true}}
DomainXBytes == VI(1, geoDomainTypeDomain) \o LD(2, TextX) \o LD(3, LD(1, TextA) \o VI(2, 1))

LongInputs ==
    { \* one record: the category " C " with the domain above
      LD(1, LD(1, TextSpacedC) \o LD(2, DomainXBytes)),
      \* an unknown 32-bit and an unknown 64-bit field inside a group, then a record
      <<27, 29, 1, 2, 3, 4, 25, 1, 2, 3, 4, 5, 6, 7, 8, 28>>
          \o LD(1, LD(1, TextC) \o LD(2, LD(2, TextX))),
      \* a group nested in a group, closed by end-group tags of other fields
      <<27, 27, 8, 1, 36, 18, 1, 0, 12, 99>>,
      \* a varint of ten bytes, and one of eleven
      <<128, 128, 128, 128, 128, 128, 128, 128, 128, 1, 99>>,
      <<128, 128, 128, 128, 128, 128, 128, 128, 128, 128, 1>>,
      \* a domain without a value
      LD(1, LD(1, TextC) \o LD(2, VI(1, 1))),
      \* a length that reaches past the end of the record but not of the buffer
      <<10, 3, 10, 2, 99, 99, 99>> }

DecodeBytes == {0, 1, 2, 10, 18, 27, 28, 99, 128}

BytesUpTo(n) == UNION {[1..k -> DecodeBytes] : k \in 0..n}

DecodeInputs == BytesUpTo(MaxBytes) \cup LongInputs

DecodeFilters == {NilFilter, FilterOf({TextC})}

DecodeInit ==
    /\ wdata \in DecodeInputs
    /\ wpc = "input"
    /\ wskip = NoSkip
    /\ wres = NoDataset

\* skipField(data, &offset, wireType) at an offset of the buffer
SkipField(off, wireType) ==
    /\ wpc = "input"
    /\ wskip' = LET k == skipField(wdata, off, wireType)
                 IN [err |-> k.err, off |-> k.off, from |-> off, wire |-> wireType]
    /\ wpc' = "skipped"
    /\ UNCHANGED <<wdata, wres>>
    /\ UNCHANGED <<engineVars, groupVars, cacheVars, persistVars, reconfVars, exprVars,
                   buildVars, keyVars, sizeVars, serverVars, ahoVars, domainVars, hostVars,
                   geoVars, loaderVars, flagVars>>

\* parseGeoSiteList(data, filter)
ParseGeoSiteList(filter) ==
    /\ wpc = "input"
    /\ wres' = parseGeoSiteList(wdata, filter)
    /\ wpc' = "parsed"
    /\ UNCHANGED <<wdata, wskip>>
    /\ UNCHANGED <<engineVars, groupVars, cacheVars, persistVars, reconfVars, exprVars,
                   buildVars, keyVars, sizeVars, serverVars, ahoVars, domainVars, hostVars,
                   geoVars, loaderVars, flagVars>>

NextDecode ==
    \/ \E off \in 0..Len(wdata), wireType \in 0..7 : SkipField(off, wireType)
    \/ \E filter \in DecodeFilters : ParseGeoSiteList(filter)

InitDecode ==
    /\ DecodeInit /\ EngineIdle /\ GroupIdle /\ CacheIdle /\ PersistIdle /\ ReconfIdle
    /\ ExprIdle /\ BuildIdle /\ KeyIdle /\ SizeIdle /\ ServerIdle /\ AhoIdle /\ DomainIdle
    /\ HostIdle /\ GeoIdle /\ LoaderIdle /\ FlagIdle

SpecDecode == InitDecode /\ [][NextDecode]_vars

(***************************************************************************)
(* What the wire format dictates, written without the decoder: the extent  *)
(* of a field's payload by wire type.                                      *)
(***************************************************************************)
NoExtent == [ok |-> FALSE, end |-> 0]
ExtentTo(end) == [ok |-> TRUE, end |-> end]

\* the lengths a varint at off can have: bytes with the top bit set, then one
\* without it, at most ten in all
VarintLens(data, off) ==
    {n \in 1..10 : /\ off + n <= Len(data)
                   /\ data[off + n] < 128
                   /\ \A j \in 1..(n - 1) : data[off + j] >= 128}

\* the seven payload bits of the j-th byte; of the tenth only bit 63 exists
PartAt(data, off, j) ==
    IF j = 10 THEN (data[off + j] % 128) % 2 ELSE data[off + j] % 128

\* the varint of n bytes at off is at most limit, for a limit below 2^28
VarintAtMost(data, off, n, limit) ==
    /\ \A j \in 5..n : PartAt(data, off, j) = 0
    /\ LET m == IF n < 4 THEN n ELSE 4
           RECURSIVE Sum(_)
           Sum(j) == IF j > m THEN 0 ELSE PartAt(data, off, j) * (128 ^ (j - 1)) + Sum(j + 1)
       IN Sum(1) <= limit

VarintLow(data, off, n) ==
    LET m == IF n < 4 THEN n ELSE 4
        RECURSIVE Sum(_)
        Sum(j) == IF j > m THEN 0 ELSE PartAt(data, off, j) * (128 ^ (j - 1)) + Sum(j + 1)
    IN Sum(1)

VarintIsZero(data, off, n) == \A j \in 1..n : PartAt(data, off, j) = 0

RECURSIVE Extent(_, _, _)
Extent(data, off, wireType) ==
    CASE wireType = 0 ->
           IF VarintLens(data, off) = {} THEN NoExtent
           ELSE ExtentTo(off + CHOOSE n \in VarintLens(data, off) : TRUE)
      [] wireType = 1 -> IF off + 8 <= Len(data) THEN ExtentTo(off + 8) ELSE NoExtent
      [] wireType = 2 ->
           IF VarintLens(data, off) = {} THEN NoExtent
           ELSE LET n == CHOOSE k \in VarintLens(data, off) : TRUE IN
                IF VarintAtMost(data, off, n, Len(data) - (off + n))
                THEN ExtentTo(off + n + VarintLow(data, off, n))
                ELSE NoExtent
      [] wireType = 3 ->
           \* fields up to the end-group tag that closes this group
           IF VarintLens(data, off) = {} THEN NoExtent
           ELSE LET n == CHOOSE k \in VarintLens(data, off) : TRUE IN
                IF VarintIsZero(data, off, n) THEN NoExtent
                ELSE IF data[off + 1] % 8 = 4 THEN ExtentTo(off + n)
                ELSE LET inner == Extent(data, off + n, data[off + 1] % 8) IN
                     IF inner.ok THEN Extent(data, inner.end, 3) ELSE NoExtent
      [] wireType = 4 -> ExtentTo(off)
      [] wireType = 5 -> IF off + 4 <= Len(data) THEN ExtentTo(off + 4) ELSE NoExtent
      [] OTHER -> NoExtent

DecodeErrors ==
    {"unexpected end of data", "varint overflow", "invalid tag 0", "invalid length",
     "unsupported wire type", "empty domain value",
     "unexpected wire type for GeoSite.country_code",
     "unexpected wire type for GeoSite.domain", "unexpected wire type for Domain.type",
     "unexpected wire type for Domain.value", "unexpected wire type for Domain.attribute",
     "unexpected wire type for Attribute.key",
     "unexpected wire type for Attribute.bool_value",
     "unexpected wire type for Attribute.int_value"}

\* C34: on every buffer the decoder comes to an end with a dataset or with one
\* of its errors and never with a read outside the buffer; skipField succeeds
\* exactly when the field's extent by its wire type lies in the buffer, and
\* then it leaves the offset at the end of that extent.
C34_DecoderEndsSkipsExtentInBuffer ==
    /\ wpc = "skipped" =>
          LET e == Extent(wdata, wskip.from, wskip.wire) IN
          /\ wskip.err \in DecodeErrors \cup {""}
          /\ (wskip.err = "") = e.ok
          /\ wskip.err = "" =>
                wskip.off = e.end /\ wskip.off >= wskip.from /\ wskip.off <= Len(wdata)
    /\ wpc = "parsed" =>
          /\ wres.err \in DecodeErrors \cup {""}
          /\ wres.err # "" => wres.result = {}

\* a group nested in a group is skipped up to the tag that closes the outer one
C34_Witness ==
    /\ wpc = "skipped"
    /\ wdata = <<27, 27, 8, 1, 36, 18, 1, 0, 12, 99>>
    /\ wskip = [err |-> "", off |-> 9, from |-> 1, wire |-> wireTypeStartGroup]

(***************************************************************************)
(* The geosite provider (fileCache): a full load decodes the whole file    *)
(* once; a selective load answers from the categories it holds and decodes *)
(* the missing ones with a filter.  Both run under the file's mutex, so a  *)
(* call is one step.  The file is a well-formed list of category records,  *)
(* each a sequence of name and domain fields.                              *)
(***************************************************************************)
MaxRecords == 2
MaxFields == 2
MaxLoads == 2

TextD == <<100>>
TextY == <<121>>

\* the fields a category record is made of: a name, or a domain entry
RecordFields ==
    {LD(1, TextC), LD(1, TextD), LD(2, LD(2, TextX)), LD(2, LD(2, TextY))}

CategoryRecords == UNION {[1..k -> RecordFields] : k \in 0..MaxFields}

\* the bytes of a file with these records
EncodeFile(records) == Concat([i \in 1..Len(records) |-> LD(1, Concat(records[i]))])

LoaderFiles ==
    {EncodeFile(rs) : rs \in UNION {[1..k -> CategoryRecords] : k \in 0..MaxRecords}}

\* what callers ask for
CategoryLists == {<<TextC>>, <<TextD>>, <<TextC, TextD>>, <<TextSpacedC, <<>>>>}

LoaderInit ==
    /\ lraw \in LoaderFiles
    /\ lall = NilData
    /\ lcats = {}
    /\ lret = NoReturn
    /\ lcalls = 0

\* f.categories[k] = v
PutUnder(cats, name, domains) ==
    {e \in cats : e.name # name} \cup {[name |-> name, domains |-> domains]}

RECURSIVE PutAll(_, _)
PutAll(cats, entries) ==
    IF entries = {} THEN cats
    ELSE LET e == CHOOSE x \in entries : TRUE
         IN PutAll(PutUnder(cats, e.name, e.domains), entries \ {e})

\* the rest of loadAll, once parseGeoSiteList returned p
loadAllParsed(all, cats, p) ==
    IF p.err # "" THEN [err |-> p.err, result |-> {}, all |-> all, cats |-> cats]
    ELSE [err |-> "", result |-> p.result,
          all |-> [isNil |-> FALSE, categories |-> p.result],
          cats |-> PutAll(cats, p.result)]

\* fileCache.loadAll
loadAll(all, cats, raw) ==
    IF ~all.isNil
    THEN [err |-> "", result |-> all.categories, all |-> all, cats |-> cats]
    ELSE loadAllParsed(all, cats, parseGeoSiteList(raw, NilFilter))

\* the loop over the categories asked for: what is held goes to the result,
\* the rest to missingSet
RECURSIVE splitAsked(_, _, _, _)
splitAsked(categories, cats, result, missingSet) ==
    IF categories = <<>> THEN [result |-> result, missingSet |-> missingSet]
    ELSE LET name == lowerBytes(trimBytes(Head(categories))) IN
         IF name = <<>> THEN splitAsked(Tail(categories), cats, result, missingSet)
         ELSE IF HasName(cats, name)
         THEN splitAsked(Tail(categories), cats,
                         PutUnder(result, name, DomainsUnder(cats, name)), missingSet)
         ELSE splitAsked(Tail(categories), cats, result, missingSet \cup {name})

\* the rest of loadCategories, once parseGeoSiteList returned p for the
\* missing categories
loadMissing(result, cats, p) ==
    IF p.err # "" THEN [err |-> p.err, result |-> {}, cats |-> cats]
    ELSE [err |-> "", result |-> PutAll(result, p.result),
          cats |-> PutAll(cats, p.result)]

\* fileCache.loadCategories
loadCategories(categories, cats, raw) ==
    IF Len(categories) = 0 THEN [err |-> "", result |-> {}, cats |-> cats]
    ELSE LET s == splitAsked(categories, cats, {}, {}) IN
         IF s.missingSet = {} THEN [err |-> "", result |-> s.result, cats |-> cats]
         ELSE loadMissing(s.result, cats, parseGeoSiteList(raw, FilterOf(s.missingSet)))

\* Provider.Load
Load ==
    /\ lcalls < MaxLoads
    /\ \E r \in {loadAll(lall, lcats, lraw)} :
       /\ lall' = r.all
       /\ lcats' = r.cats
       /\ lret' = [op |-> "Load", asked |-> <<>>, err |-> r.err, result |-> r.result]
    /\ lcalls' = lcalls + 1
    /\ UNCHANGED lraw
    /\ UNCHANGED <<engineVars, groupVars, cacheVars, persistVars, reconfVars, exprVars,
                   buildVars, keyVars, sizeVars, serverVars, ahoVars, domainVars, hostVars,
                   geoVars, decodeVars, flagVars>>

\* Provider.LoadCategories
LoadCategories(categories) ==
    /\ lcalls < MaxLoads
    /\ \E r \in {loadCategories(categories, lcats, lraw)} :
       /\ lcats' = r.cats
       /\ lret' = [op |-> "LoadCategories", asked |-> categories, err |-> r.err,
                   result |-> r.result]
    /\ lcalls' = lcalls + 1
    /\ UNCHANGED <<lraw, lall>>
    /\ UNCHANGED <<engineVars, groupVars, cacheVars, persistVars, reconfVars, exprVars,
                   buildVars, keyVars, sizeVars, serverVars, ahoVars, domainVars, hostVars,
                   geoVars, decodeVars, flagVars>>

NextLoader ==
    \/ Load
    \/ \E categories \in CategoryLists : LoadCategories(categories)

InitLoader ==
    /\ LoaderInit /\ EngineIdle /\ GroupIdle /\ CacheIdle /\ PersistIdle /\ ReconfIdle
    /\ ExprIdle /\ BuildIdle /\ KeyIdle /\ SizeIdle /\ ServerIdle /\ AhoIdle /\ DomainIdle
    /\ HostIdle /\ GeoIdle /\ DecodeIdle /\ FlagIdle

SpecLoader == InitLoader /\ [][NextLoader]_vars

\* what a full Load of the file returns
FullLoad == parseGeoSiteList(lraw, NilFilter).result

AskedNames == {lowerBytes(trimBytes(lret.asked[i])) : i \in 1..Len(lret.asked)} \ {<<>>}

\* C36: what LoadCategories returns for a category it was asked for is what a
\* full Load returns for it: the category is in both or in neither, with the
\* same entries in the same order.
C36_LoadCategoriesEqualsLoad ==
    (lret.op = "LoadCategories" /\ lret.err = "") =>
        \A name \in AskedNames :
            /\ HasName(lret.result, name) = HasName(FullLoad, name)
            /\ DomainsUnder(lret.result, name) = DomainsUnder(FullLoad, name)

(***************************************************************************)
(* Eviction of an expired entry (cacheManager.Query with lazy off)         *)
(***************************************************************************)
\* caller c performs remove(key) in this step
Removes(c) == q[c].pc = "remove" /\ q'[c].pc = "miss"

\* C35: the remove of a query that saw an expired entry takes out that entry
\* only: if the key is still held when remove runs, it is held by the entry
\* the query looked at, not by one stored since.
C35_RemoveTakesOnlyObservedEntry ==
    [][\A c \in 1..NumCallers :
          (Removes(c) /\ LruHas(lru, q[c].key)) =>
              LruEntry(lru, q[c].key).serial = q[c].ent.serial]_vars

(***************************************************************************)
(* The periodic flush next to the mutations of the cache: persistLoop      *)
(* clears dirty under the lock, then persist takes the snapshot under the  *)
(* lock again; store and remove run in between as the lock allows.  One    *)
(* instance, never restarted.                                              *)
(***************************************************************************)
NextFlush ==
    \/ \E c \in DOMAIN q : QStart(c)
    \/ \E c \in DOMAIN q : QGetLocked(c)
    \/ \E c \in DOMAIN q : QGetAdjust(c)
    \/ \E c \in DOMAIN q : QRemove(c)
    \/ \E c \in DOMAIN q : QDownstream(c)
    \/ \E c \in DOMAIN q : QStore(c)
    \/ Tick
    \/ PTick
    \/ PBegin
    \/ PWrite
    \/ PClose
    \/ PCleanup
    \/ PRename

FlushCacheInit == PersistCacheInit /\ ~lazy

InitFlush ==
    /\ FlushCacheInit /\ PersistInit /\ EngineIdle /\ GroupIdle /\ ReconfIdle /\ ExprIdle
    /\ BuildIdle /\ KeyIdle /\ SizeIdle /\ ServerIdle /\ AhoIdle /\ DomainIdle /\ HostIdle
    /\ GeoIdle /\ DecodeIdle /\ LoaderIdle /\ FlagIdle

SpecFlush == InitFlush /\ [][NextFlush]_vars

\* the records of what the cache holds now
HeldRecords == {PersistRecord(lru[i]) : i \in 1..Len(lru)}
RecordsOf(recs) == {recs[i] : i \in 1..Len(recs)}

\* C37: no store or remove is left out of the flushes.  While dirty is clear,
\* every mutation made so far is in the snapshot the running flush took, or,
\* with the loop waiting for its tick after a flush that succeeded, in the
\* file; so a mutation made before a tick is written at that tick, or it set
\* dirty after the loop cleared it and is written at the following one.
C37_MutationsReachAFlush ==
    /\ (ppc \in {"write", "close", "rename"} /\ ~dirty) => RecordsOf(psnap) = HeldRecords
    /\ (ppc = "idle" /\ ~dirty /\ ~pfailed) => RecordsOf(fs.main.recs) = HeldRecords

\* a store between the clearing of dirty and the snapshot: it is in the
\* snapshot, and dirty is set for the next tick as well
C37_Witness ==
    /\ ppc = "write"
    /\ dirty
    /\ nticks = 1
    /\ Len(psnap) = 1 /\ psnap[1].serial = 2
    /\ RecordsOf(psnap) = HeldRecords

(***************************************************************************)
(* The entry-flag cache (internal/cache, Cache): an index map from key to  *)
(* list element and a recency list, front first; an entry carries its      *)
(* expiry and the refreshing flag.  Every method holds c.mu from start to  *)
(* end, so a call is one step.  The map is kept as its set of keys; the    *)
(* element a key maps to is the first entry of the list with that key.     *)
(***************************************************************************)
NumFlagKeys == 3
MaxCapacity == 2
MaxClock == 3
MaxFlagTTL == 1
MaxOutstanding == 2
MaxMisses == 1

FlagKeys == 1..NumFlagKeys

ElemOf(order, key) == CHOOSE i \in 1..Len(order) : order[i].key = key /\
                          \A j \in 1..(i - 1) : order[j].key # key

RemoveAt(order, i) == SubSeq(order, 1, i - 1) \o SubSeq(order, i + 1, Len(order))

\* c.order.MoveToFront(elem)
MoveToFront(order, i) == <<order[i]>> \o RemoveAt(order, i)

\* New(capacity, lazy)
New(capacity, lz) ==
    [items |-> {}, order |-> <<>>, capacity |-> IF capacity <= 0 THEN 1 ELSE capacity,
     lazy |-> lz]

\* removeElement(elem), elem the i-th of the list
removeElement(c, i) ==
    [c EXCEPT !.items = @ \ {c.order[i].key}, !.order = RemoveAt(@, i)]

\* an eviction that takes the front of the list, the entry used last
evictNewest(c) == IF c.order # <<>> THEN removeElement(c, 1) ELSE c

\* evictOldest: the back of the list
evictOldest(c) == IF c.order # <<>> THEN removeElement(c, Len(c.order)) ELSE c

Miss == [found |-> FALSE, expired |-> FALSE, shouldRefresh |-> FALSE]

\* Cache.Get: the cache afterwards and the Result
Get(c, key, t) ==
    IF key \notin c.items THEN [c |-> c, res |-> Miss]
    ELSE LET i == ElemOf(c.order, key)
             ent == c.order[i]
             moved == [c EXCEPT !.order = MoveToFront(@, i)]
             remaining == ent.expiry - t
         IN IF remaining <= 0
            THEN IF ~c.lazy THEN [c |-> removeElement(moved, 1), res |-> Miss]
                 ELSE [c |-> [moved EXCEPT !.order[1].refreshing = TRUE],
                       res |-> [found |-> TRUE, expired |-> TRUE,
                                shouldRefresh |-> ~ent.refreshing]]
            ELSE [c |-> moved,
                  res |-> [found |-> TRUE, expired |-> FALSE, shouldRefresh |-> FALSE]]

\* Cache.Delete
Delete(c, key) == IF key \in c.items THEN removeElement(c, ElemOf(c.order, key)) ELSE c

\* Cache.Set, for a message whose messageTTL is ttl
Set(c, key, ttl, t) ==
    IF ttl <= 0 THEN Delete(c, key)
    ELSE IF key \in c.items
    THEN LET i == ElemOf(c.order, key) IN
         [c EXCEPT !.order = MoveToFront([@ EXCEPT ![i].expiry = t + ttl,
                                                   ![i].refreshing = FALSE], i)]
    ELSE LET pushed == [c EXCEPT !.order = <<[key |-> key, expiry |-> t + ttl,
                                              refreshing |-> FALSE]>> \o @,
                                 !.items = @ \cup {key}]
         IN IF Len(pushed.order) > pushed.capacity THEN evictOldest(pushed) ELSE pushed

\* Cache.MarkRefreshComplete
MarkRefreshComplete(c, key) ==
    IF key \in c.items
    THEN [c EXCEPT !.order[ElemOf(c.order, key)].refreshing = FALSE]
    ELSE c

TheCache == [items |-> fitems, order |-> forder, capacity |-> fcap, lazy |-> flazy]

\* history: the keys still held, by last use; key was used by this call
Used(use, key, held) ==
    LET others == SelectSeq(use, LAMBDA k : k # key /\ k \in held)
    IN IF key \in held THEN Append(others, key) ELSE others

StillHeld(use, held) == SelectSeq(use, LAMBDA k : k \in held)

FlagInit(lazies) ==
    /\ \E capacity \in 0..MaxCapacity, lz \in lazies :
         LET c == New(capacity, lz) IN
         /\ fcap = c.capacity
         /\ flazy = c.lazy
         /\ fitems = c.items
         /\ forder = c.order
    /\ fnow = 0
    /\ fuse = <<>>
    /\ fout = [k \in FlagKeys |-> 0]
    /\ fmiss = [k \in FlagKeys |-> 0]
    /\ flast = NoCall

\* the cache after a call, with the histories
Becomes(c, op, key, ttl, res, used) ==
    /\ fitems' = c.items
    /\ forder' = c.order
    /\ fuse' = IF used THEN Used(fuse, key, c.items) ELSE StillHeld(fuse, c.items)
    /\ flast' = [op |-> op, key |-> key, ttl |-> ttl, found |-> res.found, expired |-> res.expired,
                 shouldRefresh |-> res.shouldRefresh, evicted |-> fitems \ c.items]
    /\ UNCHANGED <<fcap, flazy>>

\* the clock goes on
FlagTick ==
    /\ fnow < MaxClock
    /\ fnow' = fnow + 1
    /\ UNCHANGED <<fcap, flazy, fitems, forder, fuse, fout, fmiss, flast>>
    /\ UNCHANGED <<engineVars, groupVars, cacheVars, persistVars, reconfVars, exprVars,
                   buildVars, keyVars, sizeVars, serverVars, ahoVars, domainVars, hostVars,
                   geoVars, decodeVars, loaderVars>>

CallGet(key) ==
    /\ LET r == Get(TheCache, key, fnow) IN Becomes(r.c, "Get", key, 0, r.res, TRUE)
    /\ UNCHANGED <<fnow, fout, fmiss>>
    /\ UNCHANGED <<engineVars, groupVars, cacheVars, persistVars, reconfVars, exprVars,
                   buildVars, keyVars, sizeVars, serverVars, ahoVars, domainVars, hostVars,
                   geoVars, decodeVars, loaderVars>>

CallSet(key, ttl) ==
    /\ Becomes(Set(TheCache, key, ttl, fnow), "Set", key, ttl, Miss, TRUE)
    /\ UNCHANGED <<fnow, fout, fmiss>>
    /\ UNCHANGED <<engineVars, groupVars, cacheVars, persistVars, reconfVars, exprVars,
                   buildVars, keyVars, sizeVars, serverVars, ahoVars, domainVars, hostVars,
                   geoVars, decodeVars, loaderVars>>

CallDelete(key) ==
    /\ Becomes(Delete(TheCache, key), "Delete", key, 0, Miss, FALSE)
    /\ UNCHANGED <<fnow, fout, fmiss>>
    /\ UNCHANGED <<engineVars, groupVars, cacheVars, persistVars, reconfVars, exprVars,
                   buildVars, keyVars, sizeVars, serverVars, ahoVars, domainVars, hostVars,
                   geoVars, decodeVars, loaderVars>>

CallMarkRefreshComplete(key) ==
    /\ Becomes(MarkRefreshComplete(TheCache, key), "MarkRefreshComplete", key, 0, Miss,
               FALSE)
    /\ UNCHANGED <<fnow, fout, fmiss>>
    /\ UNCHANGED <<engineVars, groupVars, cacheVars, persistVars, reconfVars, exprVars,
                   buildVars, keyVars, sizeVars, serverVars, ahoVars, domainVars, hostVars,
                   geoVars, decodeVars, loaderVars>>

NextLru ==
    \/ FlagTick
    \/ \E key \in FlagKeys : CallGet(key)
    \/ \E key \in FlagKeys, ttl \in 0..MaxFlagTTL : CallSet(key, ttl)
    \/ \E key \in FlagKeys : CallDelete(key)
    \/ \E key \in FlagKeys : CallMarkRefreshComplete(key)

InitLru ==
    /\ FlagInit(BOOLEAN) /\ EngineIdle /\ GroupIdle /\ CacheIdle /\ PersistIdle /\ ReconfIdle
    /\ ExprIdle /\ BuildIdle /\ KeyIdle /\ SizeIdle /\ ServerIdle /\ AhoIdle /\ DomainIdle
    /\ HostIdle /\ GeoIdle /\ DecodeIdle /\ LoaderIdle

SpecLru == InitLru /\ [][NextLru]_vars

\* the keys of the recency list
OrderKeys == {forder[i].key : i \in 1..Len(forder)}

\* this step is a Set of a cacheable message under a key the cache does not
\* hold, and the cache is full
InsertsIntoFull ==
    /\ flast'.op = "Set" /\ flast'.ttl > 0 /\ flast'.key \notin fitems
    /\ Cardinality(fitems) = fcap
    /\ <<fitems, forder, fuse, flast>> # <<fitems', forder', fuse', flast'>>

\* C38: the cache never holds more than capacity entries, the index map and the
\* recency list have the same keys, each once, and a Set that inserts a new key
\* into a full cache takes out the key whose last Get or Set lies furthest back,
\* and no other.
C38_BoundedSameKeysEvictsLru ==
    /\ [](/\ Len(forder) <= fcap
          /\ OrderKeys = fitems
          /\ Cardinality(fitems) = Len(forder))
    /\ [][InsertsIntoFull => fitems' = (fitems \ {Head(fuse)}) \cup {flast'.key}]_vars

\* with capacity 2, key 1 was used after key 2 although it was stored first;
\* the Set of key 3 evicts key 2
C38_Witness ==
    /\ fcap = 2
    /\ flast.op = "Set" /\ flast.key = 3 /\ flast.evicted = {2}
    /\ fitems = {1, 3}
    /\ Len(forder) = 2 /\ forder[1].key = 3 /\ forder[2].key = 1
    /\ forder[2].expiry < forder[1].expiry

(***************************************************************************)
(* The server over the entry-flag cache (Server.processRequest and         *)
(* Server.refresh, for a cacheable route with the cache enabled and lazy   *)
(* on).  Requests run concurrently: a request that missed asks the         *)
(* outbound group and calls Set when the answer is there; a lookup that    *)
(* returned ShouldRefresh starts a refresh goroutine, which ends with Set  *)
(* or, when the outbound fails, with MarkRefreshComplete.                  *)
(***************************************************************************)
OutboundOutcomes ==
    {[err |-> TRUE, ttl |-> 0]} \cup {[err |-> FALSE, ttl |-> t] : t \in 0..MaxFlagTTL}

\* processRequest up to the reply from the cache or the start of the outbound query
ProcessRequest(key) ==
    /\ LET r == Get(TheCache, key, fnow) IN
       /\ IF r.res.found
            THEN /\ r.res.shouldRefresh => fout[key] < MaxOutstanding
                 /\ fout' = IF r.res.shouldRefresh THEN [fout EXCEPT ![key] = @ + 1]
                            ELSE fout
                 /\ UNCHANGED fmiss
            ELSE /\ fmiss[key] < MaxMisses
                 /\ fmiss' = [fmiss EXCEPT ![key] = @ + 1]
                 /\ UNCHANGED fout
       /\ Becomes(r.c, "Get", key, 0, r.res, TRUE)
    /\ UNCHANGED fnow
    /\ UNCHANGED <<engineVars, groupVars, cacheVars, persistVars, reconfVars, exprVars,
                   buildVars, keyVars, sizeVars, serverVars, ahoVars, domainVars, hostVars,
                   geoVars, decodeVars, loaderVars>>

\* processRequest after group.Query: on an error nothing is stored, else s.cache.Set
OutboundReturn(key, outcome) ==
    /\ fmiss[key] > 0
    /\ fmiss' = [fmiss EXCEPT ![key] = @ - 1]
    /\ IF outcome.err
         THEN UNCHANGED <<fcap, flazy, fitems, forder, fuse, flast>>
         ELSE Becomes(Set(TheCache, key, outcome.ttl, fnow), "Set", key, outcome.ttl, Miss,
                      TRUE)
    /\ UNCHANGED <<fnow, fout>>
    /\ UNCHANGED <<engineVars, groupVars, cacheVars, persistVars, reconfVars, exprVars,
                   buildVars, keyVars, sizeVars, serverVars, ahoVars, domainVars, hostVars,
                   geoVars, decodeVars, loaderVars>>

\* Server.refresh after group.Query: MarkRefreshComplete on an error, else Set
Refresh(key, outcome) ==
    /\ fout[key] > 0
    /\ fout' = [fout EXCEPT ![key] = @ - 1]
    /\ IF outcome.err
         THEN Becomes(MarkRefreshComplete(TheCache, key), "MarkRefreshComplete", key, 0,
                      Miss, FALSE)
         ELSE Becomes(Set(TheCache, key, outcome.ttl, fnow), "Set", key, outcome.ttl, Miss,
                      TRUE)
    /\ UNCHANGED <<fnow, fmiss>>
    /\ UNCHANGED <<engineVars, groupVars, cacheVars, persistVars, reconfVars, exprVars,
                   buildVars, keyVars, sizeVars, serverVars, ahoVars, domainVars, hostVars,
                   geoVars, decodeVars, loaderVars>>

NextRefresh ==
    \/ FlagTick
    \/ \E key \in FlagKeys : ProcessRequest(key)
    \/ \E key \in FlagKeys, outcome \in OutboundOutcomes : OutboundReturn(key, outcome)
    \/ \E key \in FlagKeys, outcome \in OutboundOutcomes : Refresh(key, outcome)

InitRefresh ==
    /\ FlagInit({TRUE}) /\ EngineIdle /\ GroupIdle /\ CacheIdle /\ PersistIdle /\ ReconfIdle
    /\ ExprIdle /\ BuildIdle /\ KeyIdle /\ SizeIdle /\ ServerIdle /\ AhoIdle /\ DomainIdle
    /\ HostIdle /\ GeoIdle /\ DecodeIdle /\ LoaderIdle

SpecRefresh == InitRefresh /\ [][NextRefresh]_vars

\* C40: per key at most one refresh is outstanding: between a Get that returned
\* ShouldRefresh and the Set or MarkRefreshComplete of the refresh it started,
\* no Get returns ShouldRefresh for the key.
C40_AtMostOneRefreshOutstanding == \A key \in FlagKeys : fout[key] <= 1

(***************************************************************************)
(* Termination of a group query and of its children                        *)
(***************************************************************************)
AllChildrenFinished == \A i \in 1..Len(gsel) : gchild[i] = "finished"

\* C39: a child that has its result is never held up delivering it (the send
\* on respCh, the store into result), also after the query has returned; and
\* once every child has finished the query returns: its next step is enabled
\* and it never ends in anything but a return.
C39_QueryReturnsChildrenNeverBlock ==
    /\ \A i \in 1..Len(gsel) :
          gchild[i] = "returned" =>
              IF gimpl = "channel" THEN ENABLED ChChildSend(i) ELSE ENABLED EgChildStore(i)
    /\ (gpc = "wait" /\ AllChildrenFinished) =>
          IF gimpl = "channel" THEN ENABLED (ChRecv \/ ChAllFailed) ELSE ENABLED EgWaitReturn
    /\ gret.kind # "panic"

====
